---- MODULE Spec2Model ----
(***************************************************************************)
(* A model of the hotel-booking chat server: src/server.js, and the first   *)
(* of the two copies of the program in src/unnamed/part_000 (its lines      *)
(* 1-690), which repeats the same handlers, adds /cancel-booking and has no *)
(* /bookings-in-range.                                                      *)
(*                                                                          *)
(* The specifications of this module:                                       *)
(*   Spec            the Booking ledger of server.js: /book,                *)
(*                   /process-payment, /update-booking, /delete-booking,    *)
(*                   /bookings-in-range, one request at a time, while days  *)
(*                   pass.                                                  *)
(*   LedgerRaceSpec  the same for one booking, with the requests            *)
(*                   interleaved at their awaits.                           *)
(*   CancelSpec      /book, /cancel-booking and /delete-booking of the      *)
(*                   other file, interleaved at their awaits.               *)
(*   PaySpec         payments with the wait for the gateway made visible.   *)
(*   BookSpec        /book with request bodies of every kind.               *)
(*   ChatSpec        the /chat handler over the User and Conversation       *)
(*                   tables, concurrent requests interleaved at its awaits; *)
(*                   FairChatSpec, RaceSpec and SeqChatSpec are its         *)
(*                   variants.                                              *)
(*   WholeSpec       every route that writes a table, together.             *)
(*   UpstreamSpec    /book, /process-payment and /chat with their waits for *)
(*                   the inventory service, the gateway and the model made  *)
(*                   visible.                                               *)
(*                                                                          *)
(* Both files register /update-booking on the undeclared name pp.  Loaded   *)
(* as it is, the file throws a ReferenceError at that statement and the     *)
(* process ends before app.listen: no request is ever served.  The handlers *)
(* run only when pp names the app.  server.ppBound records which of the two *)
(* it is, and the process is up from the start only in the second case.     *)
(*                                                                          *)
(* Time is counted in whole days since 1970-01-01 (the time of day of a     *)
(* JavaScript Date is not modelled).                                        *)
(***************************************************************************)
EXTENDS Integers, Sequences, FiniteSets, TLC

VARIABLES
    bookings,       \* the Booking table: a set of rows
    now,            \* the clock read by new Date(), in days since the epoch
    last,           \* the response sent by the latest step (an observation)
    users,          \* the User table: a set of rows
    conversations,  \* the Conversation table: a sequence of rows, index = id
    pc,             \* per chat request slot: where the handler is suspended
    req,            \* per chat request slot: the handler's local variables
    served,         \* per user: chat calls answered 200 so far (an observation)
    pay,            \* per request slot: a /process-payment call and its stage
    held,           \* per request slot: a call of a ledger route or of
                    \* /register that is suspended at one of its awaits
    reviews,        \* the Review table: a set of rows
    server          \* the process: the file it was started from, whether
                    \* the name pp was bound when the file was loaded, and
                    \* whether the process runs

vars == <<bookings, now, last, users, conversations, pc, req, served, pay,
          held, reviews, server>>
chatVars == <<users, conversations, pc, req, served>>

----------------------------------------------------------------------------
(* Bounds and input domains *)

MaxTicks == 1           \* days the clock may advance
MaxNights == 2          \* nights of a booking request: 1..MaxNights
MaxTurns == 2           \* chat calls taken per user, failed ones not counted

BookingIds == {"X1", "X2"}          \* ids the inventory service hands out
Emails == {"a@b.com", "c@d.com"}
FullNames == {"A B"}
RoomIds == {5, 6}
NewRoomIds == {7}                   \* the room an update moves a booking to
TotalPrices == {300}
Amounts == {300, 1}
Methods == {"credit_card", "bitcoin"}
TxIds == {"K3J9Q2"}                 \* outcomes of the gateway's random id
NightsInputs == 1..MaxNights
Procs == {"p1", "p2"}               \* request slots: calls in flight

----------------------------------------------------------------------------
(* JavaScript Date arithmetic (ECMAScript 21.4.1), on day numbers *)

DaysInYear(y) ==
    IF y % 4 # 0 THEN 365
    ELSE IF y % 100 # 0 THEN 366
    ELSE IF y % 400 # 0 THEN 365 ELSE 366

DayFromYear(y) ==
    365 * (y - 1970) + ((y - 1969) \div 4) - ((y - 1901) \div 100)
        + ((y - 1601) \div 400)

YearFromTime(t) ==
    CHOOSE y \in 1970..2100 : DayFromYear(y) <= t /\ t < DayFromYear(y + 1)

InLeapYear(t) == IF DaysInYear(YearFromTime(t)) = 366 THEN 1 ELSE 0

DayWithinYear(t) == t - DayFromYear(YearFromTime(t))

\* first day-within-year of month m (0..11), and of the month after December
MonthStart(m, leap) ==
    CASE m = 0 -> 0
      [] m = 1 -> 31
      [] m = 2 -> 59 + leap
      [] m = 3 -> 90 + leap
      [] m = 4 -> 120 + leap
      [] m = 5 -> 151 + leap
      [] m = 6 -> 181 + leap
      [] m = 7 -> 212 + leap
      [] m = 8 -> 243 + leap
      [] m = 9 -> 273 + leap
      [] m = 10 -> 304 + leap
      [] m = 11 -> 334 + leap
      [] m = 12 -> 365 + leap

MonthFromTime(t) ==
    LET leap == InLeapYear(t)
        d == DayWithinYear(t)
    IN  CHOOSE m \in 0..11 : MonthStart(m, leap) <= d /\ d < MonthStart(m + 1, leap)

DateFromTime(t) ==
    DayWithinYear(t) - MonthStart(MonthFromTime(t), InLeapYear(t)) + 1

MakeDay(year, month, date) ==
    LET ym == year + (month \div 12)
        mn == month % 12
        leap == IF DaysInYear(ym) = 366 THEN 1 ELSE 0
    IN  DayFromYear(ym) + MonthStart(mn, leap) + date - 1

\* Date.prototype.getDay: the day of the week (what getDate is easily mistaken for)
getDay(t) == (t + 4) % 7

\* Date.prototype.getDate: the day of the month
getDate(t) == DateFromTime(t)

\* Date.prototype.setDate: the same month's day `date`, carried into later months
setDate(t, date) == MakeDay(YearFromTime(t), MonthFromTime(t), date)

\* the clock starts on 2024-02-28: a month end in a leap year
StartDay == MakeDay(2024, 1, 28)

----------------------------------------------------------------------------
(* The Booking table (sequelize.define('Booking'), primary key bookingId) *)

NoResponse == [op |-> "none", code |-> 0]

BookingKeys(bk) == {b.bookingId : b \in bk}

\* Booking.findOne({ where: { bookingId } })
FindBooking(bk, bookingId) == {b \in bk : b.bookingId = bookingId}

\* Booking.findOne({ where: { bookingId, userId } })
FindOwnedBooking(bk, bookingId, userId) ==
    {b \in bk : b.bookingId = bookingId /\ b.userId = userId}

\* the inputs of POST /book the spec calls valid
ValidBookInput(r) ==
    /\ r.nights \in Nat /\ r.nights > 0
    /\ r.fullName # "" /\ r.email # ""

\* the request bodies tried: one guest per room, the guest of room 5 for
\* every number of nights and the guest of room 6 for one night
BookRequests ==
    {r \in [roomId : RoomIds, fullName : FullNames, email : Emails,
            nights : NightsInputs] :
        /\ (r.roomId = 5) <=> (r.email = "a@b.com")
        /\ r.roomId = 6 => r.nights = 1}

\* request bodies of every kind: the ones above, a stay of no nights, a stay
\* of minus one night, and a body with the guest's name and email empty
UncheckedBookRequests ==
    BookRequests \cup
    {[roomId |-> 5, fullName |-> "A B", email |-> "a@b.com", nights |-> 0],
     [roomId |-> 5, fullName |-> "A B", email |-> "a@b.com", nights |-> -1],
     [roomId |-> 5, fullName |-> "", email |-> "", nights |-> 1]}

\* what axios.post(.../book) resolves to, or that it rejects
InventoryReplies ==
    {[ok |-> FALSE]} \cup
    {[ok |-> TRUE, data |-> [bookingId |-> id, totalPrice |-> pr]] :
        id \in BookingIds, pr \in TotalPrices}

\* the request the handler sends to the inventory service
BookCall == "POST /book"

\* a slip the ledger must not make: a row written although the remote call failed
book_RowBeforeRemote(bk, t, r, inv, dbOk) ==
    IF ~inv.ok
    THEN [bookings |-> bk \cup {[bookingId |-> "LOCAL", userId |-> r.email,
                                 roomId |-> r.roomId, checkInDate |-> t,
                                 checkOutDate |-> t + r.nights,
                                 totalAmount |-> 0, isPaid |-> FALSE]},
          code |-> 500, calls |-> <<BookCall>>,
          body |-> [error |-> "Error booking room"]]
    ELSE [bookings |-> bk \cup {[bookingId |-> inv.data.bookingId, userId |-> r.email,
                                 roomId |-> r.roomId, checkInDate |-> t,
                                 checkOutDate |-> t + r.nights,
                                 totalAmount |-> inv.data.totalPrice,
                                 isPaid |-> FALSE]},
          code |-> 200, calls |-> <<BookCall>>,
          body |-> inv.data]

\* a slip: the booking id invented locally instead of taken from the inventory reply
book_LocalId(bk, t, r, inv, dbOk) ==
    IF ~inv.ok \/ ~dbOk \/ "B1" \in BookingKeys(bk)
    THEN [bookings |-> bk, code |-> 500, calls |-> <<BookCall>>,
          body |-> [error |-> "Error booking room"]]
    ELSE [bookings |-> bk \cup {[bookingId |-> "B1", userId |-> r.email,
                                 roomId |-> r.roomId, checkInDate |-> t,
                                 checkOutDate |-> t + r.nights,
                                 totalAmount |-> inv.data.totalPrice,
                                 isPaid |-> FALSE]},
          code |-> 200, calls |-> <<BookCall>>,
          body |-> inv.data]

\* a slip: the inventory booking withdrawn when the local row cannot be written
book_Compensate(bk, t, r, inv, dbOk) ==
    IF ~inv.ok
    THEN [bookings |-> bk, code |-> 500, calls |-> <<BookCall>>,
          body |-> [error |-> "Error booking room"]]
    ELSE IF dbOk /\ inv.data.bookingId \notin BookingKeys(bk)
    THEN [bookings |-> bk \cup {[bookingId |-> inv.data.bookingId, userId |-> r.email,
                                 roomId |-> r.roomId, checkInDate |-> t,
                                 checkOutDate |-> t + r.nights,
                                 totalAmount |-> inv.data.totalPrice,
                                 isPaid |-> FALSE]},
          code |-> 200, calls |-> <<BookCall>>, body |-> inv.data]
    ELSE [bookings |-> bk, code |-> 500, calls |-> <<BookCall, "POST /cancel">>,
          body |-> [error |-> "Error booking room"]]

\* a slip: a row that is there for the returned id written over
book_Overwrite(bk, t, r, inv, dbOk) ==
    IF ~inv.ok \/ ~dbOk
    THEN [bookings |-> bk, code |-> 500, calls |-> <<BookCall>>,
          body |-> [error |-> "Error booking room"]]
    ELSE [bookings |->
            {b \in bk : b.bookingId # inv.data.bookingId}
              \cup {[bookingId |-> inv.data.bookingId, userId |-> r.email,
                      roomId |-> r.roomId, checkInDate |-> t,
                      checkOutDate |-> t + r.nights,
                      totalAmount |-> inv.data.totalPrice,
                      isPaid |-> FALSE]},
          code |-> 200, calls |-> <<BookCall>>, body |-> inv.data]

\* a slip: the guest's name stored as the row's userId
book_NameAsUser(bk, t, r, inv, dbOk) ==
    IF ~inv.ok \/ ~dbOk \/ inv.data.bookingId \in BookingKeys(bk)
    THEN [bookings |-> bk, code |-> 500, calls |-> <<BookCall>>,
          body |-> [error |-> "Error booking room"]]
    ELSE [bookings |-> bk \cup {[bookingId |-> inv.data.bookingId,
                                 userId |-> r.fullName,
                                 roomId |-> r.roomId, checkInDate |-> t,
                                 checkOutDate |-> t + r.nights,
                                 totalAmount |-> inv.data.totalPrice,
                                 isPaid |-> FALSE]},
          code |-> 200, calls |-> <<BookCall>>, body |-> inv.data]

\* app.post('/book'): the handler from the inventory reply `inv` on.  t is
\* the clock as new Date() read it, bk is the table when Booking.create runs
\* and dbOk is whether Booking.create can write (it also rejects a duplicate
\* primary key)
book(bk, t, r, inv, dbOk) ==
    IF ~inv.ok
    THEN [bookings |-> bk, code |-> 500, calls |-> <<BookCall>>,
          body |-> [error |-> "Error booking room"]]
    ELSE LET checkInDate == t
             checkOutDate == setDate(checkInDate, getDate(checkInDate) + r.nights)
             row == [bookingId |-> inv.data.bookingId,
                     userId |-> r.email,
                     roomId |-> r.roomId,
                     checkInDate |-> checkInDate,
                     checkOutDate |-> checkOutDate,
                     totalAmount |-> inv.data.totalPrice,
                     isPaid |-> FALSE]
         IN  IF dbOk /\ inv.data.bookingId \notin BookingKeys(bk)
             THEN [bookings |-> bk \cup {row}, code |-> 200, calls |-> <<BookCall>>,
                   body |-> inv.data]
             ELSE [bookings |-> bk, code |-> 500, calls |-> <<BookCall>>,
                   body |-> [error |-> "Error booking room"]]

\* the methods the process_payment function is declared with
PaymentMethods == {"credit_card", "debit_card", "paypal"}

\* the request bodies tried: the price by card, another amount, another method
PayRequests ==
    {r \in [bookingId : BookingIds, amount : Amounts, method : Methods] :
        r.amount = 300 \/ r.method = "credit_card"}

\* what the simulated gateway's promise resolves to
GatewayResponses ==
    [success : BOOLEAN, transactionId : TxIds,
     message : {"Payment processed successfully"}]

\* Booking.update({ isPaid: v }, { where: { bookingId } })
SetPaid(bk, bookingId, v) ==
    {IF b.bookingId = bookingId THEN [b EXCEPT !.isPaid = v] ELSE b : b \in bk}

PaidMessage(amount, method, transactionId) ==
    <<"Payment of $", ToString(amount), " processed via ", method,
      ". Transaction ID: ", transactionId>>

\* the one attempt processPayment makes at the gateway: the promise it builds
\* around a one-second timer
GatewayCall == "gateway timer"

\* a slip: the flag written from the gateway's verdict, whatever it is
processPayment_WriteVerdict(bk, bookingId, amount, method, gw, dbOk) ==
    IF gw.success
    THEN [bookings |-> SetPaid(bk, bookingId, TRUE),
          calls |-> <<GatewayCall>>,
          result |-> [status |-> "success",
                      message |-> PaidMessage(amount, method, gw.transactionId)]]
    ELSE [bookings |-> SetPaid(bk, bookingId, FALSE),
          calls |-> <<GatewayCall>>,
          result |-> [status |-> "failed",
                      message |-> <<"Payment processing failed. Please try again.">>]]

\* a slip: the flag set before the gateway's verdict is looked at
processPayment_PaidAnyway(bk, bookingId, amount, method, gw, dbOk) ==
    IF gw.success
    THEN [bookings |-> SetPaid(bk, bookingId, TRUE),
          calls |-> <<GatewayCall>>,
          result |-> [status |-> "success",
                      message |-> PaidMessage(amount, method, gw.transactionId)]]
    ELSE [bookings |-> SetPaid(bk, bookingId, TRUE),
          calls |-> <<GatewayCall>>,
          result |-> [status |-> "failed",
                      message |-> <<"Payment processing failed. Please try again.">>]]

\* a slip: success reported without the ledger update
processPayment_NoUpdate(bk, bookingId, amount, method, gw, dbOk) ==
    IF gw.success
    THEN [bookings |-> bk,
          calls |-> <<GatewayCall>>,
          result |-> [status |-> "success",
                      message |-> PaidMessage(amount, method, gw.transactionId)]]
    ELSE [bookings |-> bk,
          calls |-> <<GatewayCall>>,
          result |-> [status |-> "failed",
                      message |-> <<"Payment processing failed. Please try again.">>]]

\* a slip: success reported although the ledger update threw
processPayment_SuccessOnThrow(bk, bookingId, amount, method, gw, dbOk) ==
    IF gw.success
    THEN [bookings |-> IF dbOk THEN SetPaid(bk, bookingId, TRUE) ELSE bk,
          calls |-> <<GatewayCall>>,
          result |-> [status |-> "success",
                      message |-> PaidMessage(amount, method, gw.transactionId)]]
    ELSE [bookings |-> bk,
          calls |-> <<GatewayCall>>,
          result |-> [status |-> "failed",
                      message |-> <<"Payment processing failed. Please try again.">>]]

\* a slip: the payment refused unless the amount is the booking's price
processPayment_CheckAmount(bk, bookingId, amount, method, gw, dbOk) ==
    IF gw.success /\ dbOk
          /\ \A b \in FindBooking(bk, bookingId) : b.totalAmount = amount
    THEN [bookings |-> SetPaid(bk, bookingId, TRUE),
          calls |-> <<GatewayCall>>,
          result |-> [status |-> "success",
                      message |-> PaidMessage(amount, method, gw.transactionId)]]
    ELSE [bookings |-> bk,
          calls |-> <<GatewayCall>>,
          result |-> [status |-> "failed",
                      message |-> <<"Payment processing failed. Please try again.">>]]

\* a slip: a booking already paid is not charged again
processPayment_Dedup(bk, bookingId, amount, method, gw, dbOk) ==
    IF \E b \in FindBooking(bk, bookingId) : b.isPaid
    THEN [bookings |-> bk,
          calls |-> <<GatewayCall>>,
          result |-> [status |-> "failed", message |-> <<"Booking already paid.">>]]
    ELSE IF gw.success /\ dbOk
    THEN [bookings |-> SetPaid(bk, bookingId, TRUE),
          calls |-> <<GatewayCall>>,
          result |-> [status |-> "success",
                      message |-> PaidMessage(amount, method, gw.transactionId)]]
    ELSE [bookings |-> bk,
          calls |-> <<GatewayCall>>,
          result |-> [status |-> "failed",
                      message |-> <<"Payment processing failed. Please try again.">>]]

\* a slip: the booking looked up before success is reported
processPayment_CheckExists(bk, bookingId, amount, method, gw, dbOk) ==
    IF FindBooking(bk, bookingId) = {}
    THEN [bookings |-> bk,
          calls |-> <<GatewayCall>>,
          result |-> [status |-> "failed", message |-> <<"Booking not found.">>]]
    ELSE IF gw.success /\ dbOk
    THEN [bookings |-> SetPaid(bk, bookingId, TRUE),
          calls |-> <<GatewayCall>>,
          result |-> [status |-> "success",
                      message |-> PaidMessage(amount, method, gw.transactionId)]]
    ELSE [bookings |-> bk,
          calls |-> <<GatewayCall>>,
          result |-> [status |-> "failed",
                      message |-> <<"Payment processing failed. Please try again.">>]]

\* processPayment, from the gateway response `gw` on; dbOk is whether
\* Booking.update can write (a throw is caught and reported as failed)
processPayment(bk, bookingId, amount, method, gw, dbOk) ==
    IF gw.success
    THEN IF dbOk
         THEN [bookings |-> SetPaid(bk, bookingId, TRUE),
               calls |-> <<GatewayCall>>,
               result |-> [status |-> "success",
                           message |-> PaidMessage(amount, method, gw.transactionId)]]
         ELSE [bookings |-> bk,
               calls |-> <<GatewayCall>>,
               result |-> [status |-> "failed",
                           message |->
                             <<"An error occurred while processing the payment.">>]]
    ELSE [bookings |-> bk,
          calls |-> <<GatewayCall>>,
          result |-> [status |-> "failed",
                      message |-> <<"Payment processing failed. Please try again.">>]]

\* the request bodies tried: a move to another room, with the stay's dates resent
UpdateRequests ==
    [bookingId : BookingIds, roomId : NewRoomIds,
     checkInDate : {StartDay + 1}, checkOutDate : {StartDay}]

\* the instance findOne returned, after booking.update has set the three fields
UpdatedInstance(booking, r) ==
    LET b == CHOOSE x \in booking : TRUE
    IN  [b EXCEPT !.roomId = r.roomId, !.checkInDate = r.checkInDate,
                  !.checkOutDate = r.checkOutDate]

\* UPDATE ... SET roomId, checkInDate, checkOutDate WHERE bookingId = the
\* instance's key: no row is written when the row has gone since the findOne
WriteThreeFields(bk, r) ==
    {IF b.bookingId = r.bookingId
     THEN [b EXCEPT !.roomId = r.roomId, !.checkInDate = r.checkInDate,
                    !.checkOutDate = r.checkOutDate]
     ELSE b : b \in bk}

\* a slip: the row rewritten whole, the paid flag back at its default
updateBooking_ResetPaid(bk, r, findOk, booking, writeOk) ==
    IF ~findOk
    THEN [bookings |-> bk, code |-> 500, body |-> [error |-> "Error updating booking"]]
    ELSE IF booking = {}
    THEN [bookings |-> bk, code |-> 404, body |-> [error |-> "Booking not found"]]
    ELSE IF ~writeOk
    THEN [bookings |-> bk, code |-> 500, body |-> [error |-> "Error updating booking"]]
    ELSE [bookings |->
            {IF b.bookingId = r.bookingId
             THEN [b EXCEPT !.roomId = r.roomId, !.checkInDate = r.checkInDate,
                            !.checkOutDate = r.checkOutDate, !.isPaid = FALSE]
             ELSE b : b \in bk},
          code |-> 200,
          body |-> [message |-> <<"Booking updated successfully">>,
                    booking |-> UpdatedInstance(booking, r)]]

\* a slip: a booking that is not there written from the request
updateBooking_Upsert(bk, r, findOk, booking, writeOk) ==
    LET made == [bookingId |-> r.bookingId, userId |-> "", roomId |-> r.roomId,
                 checkInDate |-> r.checkInDate, checkOutDate |-> r.checkOutDate,
                 totalAmount |-> 0, isPaid |-> FALSE]
    IN  IF ~findOk
        THEN [bookings |-> bk, code |-> 500,
              body |-> [error |-> "Error updating booking"]]
        ELSE IF booking = {}
        THEN [bookings |-> bk \cup {made}, code |-> 200,
              body |-> [message |-> <<"Booking updated successfully">>,
                        booking |-> made]]
        ELSE IF ~writeOk
        THEN [bookings |-> bk, code |-> 500,
              body |-> [error |-> "Error updating booking"]]
        ELSE [bookings |-> WriteThreeFields(bk, r), code |-> 200,
              body |-> [message |-> <<"Booking updated successfully">>,
                        booking |-> UpdatedInstance(booking, r)]]

\* a slip: the update without its where clause, every row rewritten
updateBooking_AllRows(bk, r, findOk, booking, writeOk) ==
    IF ~findOk
    THEN [bookings |-> bk, code |-> 500, body |-> [error |-> "Error updating booking"]]
    ELSE IF booking = {}
    THEN [bookings |-> bk, code |-> 404, body |-> [error |-> "Booking not found"]]
    ELSE IF ~writeOk
    THEN [bookings |-> bk, code |-> 500, body |-> [error |-> "Error updating booking"]]
    ELSE [bookings |->
            {[b EXCEPT !.roomId = r.roomId, !.checkInDate = r.checkInDate,
                       !.checkOutDate = r.checkOutDate] : b \in bk},
          code |-> 200,
          body |-> [message |-> <<"Booking updated successfully">>,
                    booking |-> UpdatedInstance(booking, r)]]

\* the handler of put('/update-booking/:bookingId'), given the outcomes of its
\* two awaits: whether Booking.findOne resolved and with which row (booking,
\* empty for null), and whether booking.update resolved.  bk is the table
\* when booking.update runs; the 404 and the first 500 are answered before it.
updateBooking(bk, r, findOk, booking, writeOk) ==
    IF ~findOk
    THEN [bookings |-> bk, code |-> 500, body |-> [error |-> "Error updating booking"]]
    ELSE IF booking = {}
    THEN [bookings |-> bk, code |-> 404, body |-> [error |-> "Booking not found"]]
    ELSE IF ~writeOk
    THEN [bookings |-> bk, code |-> 500, body |-> [error |-> "Error updating booking"]]
    ELSE [bookings |-> WriteThreeFields(bk, r), code |-> 200,
          body |-> [message |-> <<"Booking updated successfully">>,
                    booking |-> UpdatedInstance(booking, r)]]

\* a slip: a paid booking kept
deleteBooking_UnpaidOnly(bk, bookingId, findOk, booking, destroyOk) ==
    IF ~findOk
    THEN [bookings |-> bk, code |-> 500, body |-> [error |-> "Error deleting booking"]]
    ELSE IF booking = {} \/ \E b \in booking : b.isPaid
    THEN [bookings |-> bk, code |-> 404, body |-> [error |-> "Booking not found"]]
    ELSE IF ~destroyOk
    THEN [bookings |-> bk, code |-> 500, body |-> [error |-> "Error deleting booking"]]
    ELSE [bookings |-> bk \ FindBooking(bk, bookingId), code |-> 200,
          body |-> [message |-> <<"Booking deleted successfully">>]]

\* the handler of app.delete('/delete-booking/:bookingId'), given the outcomes
\* of its two awaits: Booking.findOne and booking.destroy.  bk is the table
\* when booking.destroy runs: DELETE ... WHERE bookingId = the instance's key,
\* which removes nothing, and is no error, when the row has gone already.
deleteBooking(bk, bookingId, findOk, booking, destroyOk) ==
    IF ~findOk
    THEN [bookings |-> bk, code |-> 500, body |-> [error |-> "Error deleting booking"]]
    ELSE IF booking = {}
    THEN [bookings |-> bk, code |-> 404, body |-> [error |-> "Booking not found"]]
    ELSE IF ~destroyOk
    THEN [bookings |-> bk, code |-> 500, body |-> [error |-> "Error deleting booking"]]
    ELSE [bookings |-> bk \ FindBooking(bk, bookingId), code |-> 200,
          body |-> [message |-> <<"Booking deleted successfully">>]]

CancelRequests == [bookingId : BookingIds, userId : Emails]

\* a slip: the row looked up by its id alone
cancelBooking_NoOwnerCheck(bk, r, findOk, booking, destroyOk) ==
    IF ~findOk
    THEN [bookings |-> bk, code |-> 500, body |-> [error |-> "Error canceling booking"]]
    ELSE IF FindBooking(bk, r.bookingId) = {}
    THEN [bookings |-> bk, code |-> 404, body |-> [error |-> "Booking not found"]]
    ELSE IF ~destroyOk
    THEN [bookings |-> bk, code |-> 500, body |-> [error |-> "Error canceling booking"]]
    ELSE [bookings |-> bk \ FindBooking(bk, r.bookingId), code |-> 200,
          body |-> [message |-> <<"Booking canceled successfully">>]]

\* the handler of app.post('/cancel-booking'), given the outcomes of its two
\* awaits: Booking.findOne({ where: { bookingId, userId } }) and
\* booking.destroy, which deletes by the instance's key
cancelBooking(bk, r, findOk, booking, destroyOk) ==
    IF ~findOk
    THEN [bookings |-> bk, code |-> 500, body |-> [error |-> "Error canceling booking"]]
    ELSE IF booking = {}
    THEN [bookings |-> bk, code |-> 404, body |-> [error |-> "Booking not found"]]
    ELSE IF ~destroyOk
    THEN [bookings |-> bk, code |-> 500, body |-> [error |-> "Error canceling booking"]]
    ELSE [bookings |-> bk \ FindBooking(bk, r.bookingId), code |-> 200,
          body |-> [message |-> <<"Booking canceled successfully">>]]

\* the query strings tried, as days: from the first day to it or to the next
RangeRequests == [startDate : {StartDay}, endDate : {StartDay, StartDay + 1}]

\* whether the name Op is bound where the range query is built: this file
\* takes Sequelize and DataTypes from sequelize, and not Op
OpIsBound == FALSE

\* app.get('/bookings-in-range'): the where clause { [Op.between]: [start, end] }
\* is built inside the try, so an unbound Op is a ReferenceError that the catch
\* answers; with Op bound, the rows whose checkInDate is between the two
\* dates, both included, are sent
getBookingsInRange(bk, r) ==
    IF ~OpIsBound
    THEN [code |-> 500, body |-> [error |-> "Error fetching bookings within range"]]
    ELSE [code |-> 200,
          body |-> [bookings |->
                      {b \in bk : r.startDate <= b.checkInDate
                                    /\ b.checkInDate <= r.endDate}]]

\* what axios.get(.../rooms) resolves to, or that it rejects
RoomLists == {<<>>, <<[id |-> 5, name |-> "Deluxe", price |-> 300]>>}
RoomsReplies ==
    {[ok |-> FALSE]} \cup {[ok |-> TRUE, data |-> d] : d \in RoomLists}

\* a slip: the failure of the inventory service passed on to the caller
getRooms_Rethrow(reply) ==
    IF reply.ok
    THEN [threw |-> FALSE, value |-> reply.data]
    ELSE [threw |-> TRUE, value |-> <<>>]

\* getRooms(), from the inventory reply on: what the call returns, and
\* whether it throws
getRooms(reply) ==
    IF reply.ok
    THEN [threw |-> FALSE, value |-> reply.data]
    ELSE [threw |-> FALSE, value |-> <<>>]

----------------------------------------------------------------------------
(* The program and its routes.  The process is started from server.js or    *)
(* from the first copy of the program in part_000 (the whole of part_000    *)
(* declares its names twice and does not parse).  Either file reads         *)
(* pp.put(...) where it registers /update-booking, and pp is declared       *)
(* nowhere: as it is, the file throws there while it loads and the process  *)
(* ends before app.listen.  With pp naming the app every statement runs and *)
(* every route of the file is served; a request for a route the file does   *)
(* not have is answered by Express's final handler.                         *)

Files == {"server.js", "part_000"}

UpdateRoute == <<"PUT", "/update-booking/:bookingId">>
DeleteRoute == <<"DELETE", "/delete-booking/:bookingId">>
RangeRoute == <<"GET", "/bookings-in-range">>
CancelRoute == <<"POST", "/cancel-booking">>

\* of the four routes above, the ones the file registers
Routes(file) ==
    IF file = "server.js"
    THEN {UpdateRoute, DeleteRoute, RangeRoute}
    ELSE {UpdateRoute, DeleteRoute, CancelRoute}

Served(route) == route \in Routes(server.file)

\* Express's final handler: "Cannot <METHOD> <path>", status 404
Cannot(route) == [cannot |-> route]

\* a request slot with no suspended call in it
HeldIdle == [pc |-> "idle"]

----------------------------------------------------------------------------
(* The ledger's steps.  A handler runs from one await to the next without   *)
(* another request being served, and other requests and the clock move      *)
(* while it is suspended.  /book reads the clock when the inventory service *)
(* has answered and writes the row at its next await; the update, delete    *)
(* and cancel handlers await Booking.findOne and then the write on the      *)
(* instance found.  Each takes one step to the first of these and one from  *)
(* there to the response.  /process-payment holds no ledger data while it   *)
(* waits for the gateway timer, so its step here is the run from the        *)
(* gateway's response to the handler's.                                     *)

\* one of the request bodies in R arrives at POST /book and the inventory
\* service answers with one of I: on a failure the handler answers; on a
\* reply it reads the clock, computes the dates and starts Booking.create
PostBookOf(p, R, I) ==
    /\ server.up
    /\ held[p] = HeldIdle
    /\ \E r \in R, inv \in I :
         IF inv.ok
         THEN /\ held' = [held EXCEPT ![p] =
                             [pc |-> "create", op |-> "book", req |-> r,
                              inv |-> inv, checkInDate |-> now]]
              /\ last' = NoResponse
              /\ UNCHANGED bookings
         ELSE LET out == book(bookings, now, r, inv, TRUE)
              IN  /\ bookings' = out.bookings
                  /\ last' = [op |-> "book", code |-> out.code, req |-> r,
                              env |-> [inv |-> inv, dbOk |-> TRUE],
                              calls |-> out.calls, body |-> out.body]
                  /\ UNCHANGED held
    /\ UNCHANGED <<now, pay, reviews, server, chatVars>>

PostBook(p) == PostBookOf(p, BookRequests, InventoryReplies)

\* Booking.create resolves or rejects; the handler answers.  The row has the
\* dates computed from the clock as it was read before the await.
BookCreate(p) ==
    /\ server.up
    /\ held[p].pc = "create" /\ held[p].op = "book"
    /\ \E dbOk \in BOOLEAN :
         LET r == held[p].req
             inv == held[p].inv
             out == book(bookings, held[p].checkInDate, r, inv, dbOk)
         IN  /\ bookings' = out.bookings
             /\ last' = [op |-> "book", code |-> out.code, req |-> r,
                         env |-> [inv |-> inv, dbOk |-> dbOk],
                         calls |-> out.calls, body |-> out.body]
    /\ held' = [held EXCEPT ![p] = HeldIdle]
    /\ UNCHANGED <<now, pay, reviews, server, chatVars>>

\* /process-payment served for one of the request bodies in R
PostProcessPaymentOf(R) ==
    /\ server.up
    /\ \E r \in R, gw \in GatewayResponses :
      \E dbOk \in IF gw.success THEN BOOLEAN ELSE {TRUE} :
        LET out == processPayment(bookings, r.bookingId, r.amount, r.method, gw, dbOk)
        IN  /\ bookings' = out.bookings
            /\ last' = [op |-> "pay", code |-> 200, req |-> r,
                        env |-> [gw |-> gw, dbOk |-> dbOk], calls |-> out.calls,
                        body |-> out.result]
            /\ UNCHANGED <<now, pay, reviews, held, server, chatVars>>

PostProcessPayment == PostProcessPaymentOf(PayRequests)

\* one of the request bodies in R arrives at PUT /update-booking/:bookingId; the
\* handler runs to the outcome of Booking.findOne, and answers there unless a
\* row was found
PutUpdateBookingOf(p, R) ==
    /\ server.up
    /\ held[p] = HeldIdle
    /\ \E r \in R, findOk \in BOOLEAN :
         LET found == FindBooking(bookings, r.bookingId)
             out == updateBooking(bookings, r, findOk, found, TRUE)
         IN  IF findOk /\ found # {}
             THEN /\ held' = [held EXCEPT ![p] =
                                 [pc |-> "found", op |-> "update",
                                  req |-> r, booking |-> found]]
                  /\ last' = NoResponse
                  /\ UNCHANGED bookings
             ELSE /\ bookings' = out.bookings
                  /\ last' = [op |-> "update", code |-> out.code, req |-> r,
                              env |-> [findOk |-> findOk, writeOk |-> TRUE],
                              found |-> found, body |-> out.body]
                  /\ UNCHANGED held
    /\ UNCHANGED <<now, pay, reviews, server, chatVars>>

PutUpdateBooking(p) == PutUpdateBookingOf(p, UpdateRequests)

\* booking.update resolves or rejects; the handler answers
UpdateWrite(p) ==
    /\ server.up
    /\ held[p].pc = "found" /\ held[p].op = "update"
    /\ \E writeOk \in BOOLEAN :
         LET r == held[p].req
             out == updateBooking(bookings, r, TRUE, held[p].booking, writeOk)
         IN  /\ bookings' = out.bookings
             /\ last' = [op |-> "update", code |-> out.code, req |-> r,
                         env |-> [findOk |-> TRUE, writeOk |-> writeOk],
                         found |-> held[p].booking, body |-> out.body]
    /\ held' = [held EXCEPT ![p] = HeldIdle]
    /\ UNCHANGED <<now, pay, reviews, server, chatVars>>

\* DELETE /delete-booking/:bookingId arrives for one of the ids in Ids; the
\* handler runs to the outcome of Booking.findOne
DeleteDeleteBookingOf(p, Ids) ==
    /\ server.up
    /\ held[p] = HeldIdle
    /\ \E id \in Ids, findOk \in BOOLEAN :
         LET found == FindBooking(bookings, id)
             out == deleteBooking(bookings, id, findOk, found, TRUE)
         IN  IF findOk /\ found # {}
             THEN /\ held' = [held EXCEPT ![p] =
                                 [pc |-> "found", op |-> "delete",
                                  req |-> [bookingId |-> id],
                                  booking |-> found]]
                  /\ last' = NoResponse
                  /\ UNCHANGED bookings
             ELSE /\ bookings' = out.bookings
                  /\ last' = [op |-> "delete", code |-> out.code,
                              req |-> [bookingId |-> id],
                              env |-> [findOk |-> findOk, writeOk |-> TRUE],
                              found |-> found, body |-> out.body]
                  /\ UNCHANGED held
    /\ UNCHANGED <<now, pay, reviews, server, chatVars>>

DeleteDeleteBooking(p) == DeleteDeleteBookingOf(p, BookingIds)

\* booking.destroy resolves or rejects; the handler answers
DeleteDestroy(p) ==
    /\ server.up
    /\ held[p].pc = "found" /\ held[p].op = "delete"
    /\ \E destroyOk \in BOOLEAN :
         LET r == held[p].req
             out == deleteBooking(bookings, r.bookingId, TRUE, held[p].booking,
                                  destroyOk)
         IN  /\ bookings' = out.bookings
             /\ last' = [op |-> "delete", code |-> out.code, req |-> r,
                         env |-> [findOk |-> TRUE, writeOk |-> destroyOk],
                         found |-> held[p].booking, body |-> out.body]
    /\ held' = [held EXCEPT ![p] = HeldIdle]
    /\ UNCHANGED <<now, pay, reviews, server, chatVars>>

\* one of the request bodies in R arrives at POST /cancel-booking.  server.js
\* has no such route and Express answers; in the other file the handler runs
\* to the outcome of Booking.findOne({ where: { bookingId, userId } })
PostCancelBookingOf(p, R) ==
    /\ server.up
    /\ held[p] = HeldIdle
    /\ \E r \in R :
         IF ~Served(CancelRoute)
         THEN /\ last' = [op |-> "cancel", code |-> 404, req |-> r,
                          body |-> Cannot(CancelRoute)]
              /\ UNCHANGED <<bookings, held>>
         ELSE \E findOk \in BOOLEAN :
                LET found == FindOwnedBooking(bookings, r.bookingId, r.userId)
                    out == cancelBooking(bookings, r, findOk, found, TRUE)
                IN  IF findOk /\ found # {}
                    THEN /\ held' = [held EXCEPT ![p] =
                                        [pc |-> "found", op |-> "cancel",
                                         req |-> r, booking |-> found]]
                         /\ last' = NoResponse
                         /\ UNCHANGED bookings
                    ELSE /\ bookings' = out.bookings
                         /\ last' = [op |-> "cancel", code |-> out.code, req |-> r,
                                     env |-> [findOk |-> findOk, writeOk |-> TRUE],
                                     found |-> found, body |-> out.body]
                         /\ UNCHANGED held
    /\ UNCHANGED <<now, pay, reviews, server, chatVars>>

PostCancelBooking(p) == PostCancelBookingOf(p, CancelRequests)

\* booking.destroy resolves or rejects; the handler answers
CancelDestroy(p) ==
    /\ server.up
    /\ held[p].pc = "found" /\ held[p].op = "cancel"
    /\ \E destroyOk \in BOOLEAN :
         LET r == held[p].req
             out == cancelBooking(bookings, r, TRUE, held[p].booking, destroyOk)
         IN  /\ bookings' = out.bookings
             /\ last' = [op |-> "cancel", code |-> out.code, req |-> r,
                         env |-> [findOk |-> TRUE, writeOk |-> destroyOk],
                         found |-> held[p].booking, body |-> out.body]
    /\ held' = [held EXCEPT ![p] = HeldIdle]
    /\ UNCHANGED <<now, pay, reviews, server, chatVars>>

\* GET /bookings-in-range arrives: the handler of server.js answers; the other
\* file has no such route and Express answers
GetBookingsInRange ==
    /\ server.up
    /\ \E r \in RangeRequests :
         LET out == IF Served(RangeRoute)
                    THEN getBookingsInRange(bookings, r)
                    ELSE [code |-> 404, body |-> Cannot(RangeRoute)]
         IN  /\ last' = [op |-> "range", code |-> out.code, req |-> r,
                         body |-> out.body]
             /\ UNCHANGED <<bookings, now, pay, reviews, held, server, chatVars>>

\* a call of getRooms() returns
CallGetRooms ==
    /\ server.up
    /\ \E reply \in RoomsReplies :
        /\ last' = [op |-> "rooms", code |-> 0, env |-> [rooms |-> reply],
                    body |-> getRooms(reply)]
        /\ UNCHANGED <<bookings, now, pay, reviews, held, server, chatVars>>

\* a day passes; no response is sent
Tick ==
    /\ server.up
    /\ now < StartDay + MaxTicks
    /\ now' = now + 1
    /\ last' = NoResponse
    /\ UNCHANGED <<bookings, pay, reviews, held, server, chatVars>>

----------------------------------------------------------------------------
(* The chat handler: app.post('/chat', authenticateUser, ...) *)

UserIds == {"u1", "u2"}
Undefined == "<undefined>"          \* a property the JSON body does not have
Null == "<null>"                    \* the content of a function-call completion
Replies == {"Hello!", Null}

\* the request bodies tried: u1 says hi, u2 sends no message, and no userId
ChatRequests ==
    {[userId |-> "u1", message |-> "hi"],
     [userId |-> "u2", message |-> Undefined],
     [userId |-> "", message |-> "hi"]}

\* what openai.chat.completions.create resolves to (the content read at
\* completion.data.choices[0].message.content), or that the await throws
\* A completion is a reply in words, or a call of one of the functions the
\* request declares, whose content is null.
FunctionNames == {"get_rooms", "book_room", "process_payment"}
ModelOutcomes ==
    {[ok |-> FALSE]}
      \cup {[ok |-> TRUE, content |-> c, function_call |-> Undefined] :
                c \in Replies \ {Null}}
      \cup {[ok |-> TRUE, content |-> Null, function_call |-> f] :
                f \in FunctionNames}

\* JSON.stringify(messages): a property whose value is undefined is left out
Stringify(messages) ==
    [i \in DOMAIN messages |->
        IF messages[i].content = Undefined
        THEN [role |-> messages[i].role]
        ELSE messages[i]]

\* JSON.parse(text), read through .role and .content
Parse(text) ==
    [i \in DOMAIN text |->
        IF "content" \in DOMAIN text[i]
        THEN text[i]
        ELSE [role |-> text[i].role, content |-> Undefined]]

\* the handler's local variables; stamp is the new Date() it evaluated for
\* lastInteraction.  calls is an observation: the requests the handler has
\* made of the model so far
IdleReq ==
    [userId |-> "", message |-> "", user |-> FALSE, stamp |-> 0, conv |-> 0,
     messages |-> <<>>, calls |-> <<>>]

\* a slip: every request let through
authenticateUser_AllowAll(userId) == TRUE

\* authenticateUser: the request goes on only with a truthy userId
authenticateUser(userId) == userId # ""

\* User.findOne({ where: { userId } })
FindUser(us, userId) == {u \in us : u.userId = userId}

\* Conversation.findOne({ where: { userId } }): the id of the first such row, or 0
FindConversation(cs, userId) ==
    IF \E i \in DOMAIN cs : cs[i].userId = userId
    THEN CHOOSE i \in DOMAIN cs :
            /\ cs[i].userId = userId
            /\ \A j \in DOMAIN cs : cs[j].userId = userId => i <= j
    ELSE 0

\* the transcript a reader finds stored for a user (none stored: no turns)
TranscriptIn(cs, userId) ==
    IF FindConversation(cs, userId) = 0
    THEN <<>>
    ELSE Parse(cs[FindConversation(cs, userId)].messages)

Transcript(userId) == TranscriptIn(conversations, userId)

\* messages.push({ role: 'user', content: message })
pushUser(messages, message) ==
    Append(messages, [role |-> "user", content |-> message])

\* messages.push({ role: 'system', content: assistantMessage })
pushReply(messages, content) ==
    Append(messages, [role |-> "system", content |-> content])

\* the request the handler makes of the model
ModelCall == "openai.chat.completions.create"

\* a slip: the transcript saved as soon as the user turn is pushed
chatReply_SaveBeforeReply(cs, r, out, dbOk) ==
    IF ~out.ok
    THEN [conversations |->
            [cs EXCEPT ![r.conv].messages = Stringify(r.messages)],
          code |-> 500, calls |-> <<ModelCall>>,
          body |-> [error |-> "Error processing chat"]]
    ELSE [conversations |->
            [cs EXCEPT ![r.conv].messages = Stringify(pushReply(r.messages, out.content))],
          code |-> 200, calls |-> <<ModelCall>>,
          body |-> [messages |-> pushReply(r.messages, out.content)]]

\* a slip: only the latest exchange saved, the earlier turns dropped
chatReply_LatestOnly(cs, r, out, dbOk) ==
    IF ~out.ok \/ ~dbOk
    THEN [conversations |-> cs, code |-> 500,
          calls |-> <<ModelCall>>,
          body |-> [error |-> "Error processing chat"]]
    ELSE [conversations |->
            [cs EXCEPT ![r.conv].messages =
                Stringify(pushReply(pushUser(<<>>, r.message), out.content))],
          code |-> 200, calls |-> <<ModelCall>>,
          body |-> [messages |-> pushReply(r.messages, out.content)]]

\* a slip: a failed turn leaves its user turn behind in the stored transcript
chatReply_KeepPendingTurn(cs, r, out, dbOk) ==
    IF ~out.ok
    THEN [conversations |->
            [cs EXCEPT ![r.conv].messages = Stringify(r.messages)],
          code |-> 500, calls |-> <<ModelCall>>,
          body |-> [error |-> "Error processing chat"]]
    ELSE IF ~dbOk
    THEN [conversations |-> cs, code |-> 500,
          calls |-> <<ModelCall>>,
          body |-> [error |-> "Error processing chat"]]
    ELSE [conversations |->
            [cs EXCEPT ![r.conv].messages = Stringify(pushReply(r.messages, out.content))],
          code |-> 200, calls |-> <<ModelCall>>,
          body |-> [messages |-> pushReply(r.messages, out.content)]]

\* a slip: the save re-reads the stored transcript and appends the exchange
chatReply_Merge(cs, r, out, dbOk) ==
    IF ~out.ok \/ ~dbOk
    THEN [conversations |-> cs, code |-> 500,
          calls |-> <<ModelCall>>,
          body |-> [error |-> "Error processing chat"]]
    ELSE [conversations |->
            [cs EXCEPT ![r.conv].messages =
                Stringify(pushReply(pushUser(Parse(cs[r.conv].messages), r.message),
                                    out.content))],
          code |-> 200, calls |-> <<ModelCall>>,
          body |-> [messages |-> pushReply(r.messages, out.content)]]

\* the try block of the handler from the model's completion `out` on: the
\* reply is pushed, the conversation row of this request is rewritten whole
\* and the transcript is sent; a throw (of the model call, or of
\* conversation.update when dbOk is false) is answered 500
chatReply(cs, r, out, dbOk) ==
    IF ~out.ok \/ ~dbOk
    THEN [conversations |-> cs, code |-> 500,
          calls |-> <<ModelCall>>,
          body |-> [error |-> "Error processing chat"]]
    ELSE [conversations |->
            [cs EXCEPT ![r.conv].messages = Stringify(pushReply(r.messages, out.content))],
          code |-> 200, calls |-> <<ModelCall>>,
          body |-> [messages |-> pushReply(r.messages, out.content)]]

\* the calls of a user answered 200 or still in flight
TurnsTaken(userId) ==
    served[userId]
      + Cardinality({q \in Procs : pc[q] # "idle" /\ req[q].userId = userId})

\* An await of the handler that is outside its try rejects: the handler's
\* promise rejects, Express 4 does not look at it, and the request is never
\* answered.  What the unhandled rejection does depends on the Node.js
\* running the file: it is reported and the process goes on (before Node 15,
\* or with --unhandled-rejections=warn), or the process ends, with every
\* other request in flight left unanswered.
Unanswered(p) ==
    /\ pc' = [pc EXCEPT ![p] = "hung"]
    /\ \E exits \in BOOLEAN : server' = [server EXCEPT !.up = ~exits]

\* the request arrives: authenticateUser, then User.findOne settles.  When it
\* resolves the handler evaluates new Date() and starts User.create (no row
\* found) or user.update (a row found).
ChatCallOf(p, R) ==
    /\ server.up
    /\ pc[p] = "idle"
    /\ \E r \in R :
        IF ~authenticateUser(r.userId)
        THEN /\ last' = [op |-> "chat", code |-> 401, req |-> r,
                         body |-> [error |-> "Unauthorized"]]
             /\ UNCHANGED <<pc, req, server>>
        ELSE /\ TurnsTaken(r.userId) < MaxTurns
             /\ last' = NoResponse
             /\ \E findOk \in BOOLEAN :
                  IF findOk
                  THEN /\ pc' = [pc EXCEPT ![p] = "user"]
                       /\ req' = [req EXCEPT ![p] =
                              [IdleReq EXCEPT !.userId = r.userId,
                                              !.message = r.message,
                                              !.user = FindUser(users, r.userId) # {},
                                              !.stamp = now]]
                       /\ UNCHANGED server
                  ELSE /\ req' = [req EXCEPT ![p] =
                              [IdleReq EXCEPT !.userId = r.userId,
                                              !.message = r.message]]
                       /\ Unanswered(p)
    /\ UNCHANGED <<bookings, now, pay, reviews, held, users, conversations, served>>

ChatCall(p) == ChatCallOf(p, ChatRequests)

\* User.create({ userId, lastInteraction }): the columns not given are null
NewUser(userId, t) ==
    [userId |-> userId, fullName |-> Null, email |-> Null, lastInteraction |-> t]

\* user.update({ lastInteraction }): UPDATE ... WHERE userId = the instance's key
TouchUser(us, userId, t) ==
    {IF u.userId = userId THEN [u EXCEPT !.lastInteraction = t] ELSE u : u \in us}

\* User.create or user.update settles.  The row gets the date the handler
\* evaluated before the await.  The write rejects when the table cannot be
\* written, and a User.create also when it meets a row written since the
\* findOne; the await is outside the handler's try.
ChatUser(p) ==
    /\ server.up
    /\ pc[p] = "user"
    /\ last' = NoResponse
    /\ \E writeOk \in BOOLEAN :
         IF ~writeOk \/ (~req[p].user /\ FindUser(users, req[p].userId) # {})
         THEN /\ Unanswered(p)
              /\ UNCHANGED users
         ELSE /\ users' = IF req[p].user
                          THEN TouchUser(users, req[p].userId, req[p].stamp)
                          ELSE users \cup {NewUser(req[p].userId, req[p].stamp)}
              /\ pc' = [pc EXCEPT ![p] = "find"]
              /\ UNCHANGED server
    /\ UNCHANGED <<bookings, now, pay, reviews, held, conversations, req, served>>

\* Conversation.findOne({ where: { userId } }) settles: with no row the
\* handler goes on to Conversation.create, with a row to JSON.parse, the push
\* of the user's message and the model call, which it sends and waits for;
\* the await is outside the try
ChatFind(p) ==
    /\ server.up
    /\ pc[p] = "find"
    /\ last' = NoResponse
    /\ \E findOk \in BOOLEAN :
         LET id == FindConversation(conversations, req[p].userId)
         IN  IF ~findOk
             THEN /\ Unanswered(p)
                  /\ UNCHANGED req
             ELSE IF id = 0
             THEN /\ pc' = [pc EXCEPT ![p] = "create"]
                  /\ UNCHANGED <<req, server>>
             ELSE /\ pc' = [pc EXCEPT ![p] = "model"]
                  /\ req' = [req EXCEPT ![p].conv = id,
                                ![p].messages =
                                    pushUser(Parse(conversations[id].messages),
                                             req[p].message),
                                ![p].calls = Append(@, ModelCall)]
                  /\ UNCHANGED server
    /\ UNCHANGED <<bookings, now, pay, reviews, held, users, conversations, served>>

\* the request bodies of POST /register tried
RegisterRequests == {[userId |-> "u1", fullName |-> "A B", email |-> "a@b.com"]}

\* app.post('/register'): User.create inside the handler's try.  t is the
\* clock as new Date() read it when the request arrived, us is the table when
\* User.create runs; dbOk is whether the table can be written, and a row
\* with the userId is a uniqueness error
register(us, t, r, dbOk) ==
    IF dbOk /\ FindUser(us, r.userId) = {}
    THEN LET user == [userId |-> r.userId, fullName |-> r.fullName,
                      email |-> r.email, lastInteraction |-> t]
         IN  [users |-> us \cup {user}, code |-> 200, body |-> [user |-> user]]
    ELSE [users |-> us, code |-> 500, body |-> [error |-> "Error registering user"]]

\* POST /register arrives: the handler evaluates new Date() and starts
\* User.create
PostRegister(p) ==
    /\ server.up
    /\ held[p] = HeldIdle
    /\ \E r \in RegisterRequests :
         held' = [held EXCEPT ![p] =
                     [pc |-> "create", op |-> "register", req |-> r,
                      lastInteraction |-> now]]
    /\ last' = NoResponse
    /\ UNCHANGED <<bookings, now, pay, reviews, server, chatVars>>

\* User.create resolves or rejects; the handler answers
RegisterCreate(p) ==
    /\ server.up
    /\ held[p].pc = "create" /\ held[p].op = "register"
    /\ \E dbOk \in BOOLEAN :
         LET r == held[p].req
             out == register(users, held[p].lastInteraction, r, dbOk)
         IN  /\ users' = out.users
             /\ last' = [op |-> "register", code |-> out.code, req |-> r,
                         env |-> [dbOk |-> dbOk], body |-> out.body]
    /\ held' = [held EXCEPT ![p] = HeldIdle]
    /\ UNCHANGED <<bookings, now, pay, reviews, server, conversations, pc, req, served>>

\* Conversation.create({ userId, messages: '[]' }) settles: the row is there
\* and the handler sends the model call and waits for it, or the create
\* rejects, outside the try
ChatCreate(p) ==
    /\ server.up
    /\ pc[p] = "create"
    /\ last' = NoResponse
    /\ \E createOk \in BOOLEAN :
         IF createOk
         THEN /\ conversations' =
                    Append(conversations,
                           [userId |-> req[p].userId, messages |-> <<>>])
              /\ req' = [req EXCEPT ![p].conv = Len(conversations) + 1,
                                    ![p].messages =
                                        pushUser(Parse(<<>>), req[p].message),
                                    ![p].calls = Append(@, ModelCall)]
              /\ pc' = [pc EXCEPT ![p] = "model"]
              /\ UNCHANGED server
         ELSE /\ Unanswered(p)
              /\ UNCHANGED <<conversations, req>>
    /\ UNCHANGED <<bookings, now, pay, reviews, held, users, served>>

\* the model call returns or throws; the handler answers
ChatModel(p) ==
    /\ server.up
    /\ pc[p] = "model"
    /\ \E out \in ModelOutcomes :
         \E dbOk \in IF out.ok THEN BOOLEAN ELSE {TRUE} :
           LET res == chatReply(conversations, req[p], out, dbOk)
           IN  /\ conversations' = res.conversations
               /\ last' = [op |-> "chat", code |-> res.code,
                           req |-> [userId |-> req[p].userId,
                                    message |-> req[p].message],
                           env |-> [out |-> out, dbOk |-> dbOk], calls |-> res.calls,
                           body |-> res.body]
               /\ served' = IF res.code = 200
                            THEN [served EXCEPT ![req[p].userId] = @ + 1]
                            ELSE served
    /\ pc' = [pc EXCEPT ![p] = "idle"]
    /\ req' = [req EXCEPT ![p] = IdleReq]
    /\ UNCHANGED <<bookings, now, pay, reviews, held, server, users>>

\* a day passes while chat requests are served
ChatTick ==
    /\ server.up
    /\ now < StartDay + MaxTicks
    /\ now' = now + 1
    /\ last' = NoResponse
    /\ UNCHANGED <<bookings, pay, reviews, held, server, chatVars>>

----------------------------------------------------------------------------
(* /process-payment with its wait for the gateway made visible: the request *)
(* arrives and the gateway's timer starts (PayCall); a second later the     *)
(* timer fires, the row is updated and the handler answers (PayReturn).     *)
(* Other requests are served in between.                                    *)

\* a slot with no /process-payment call in it; the slot of a call holds the
\* request, two observations taken when it arrived (seen, overlap) and
\* calls, the attempts it has made at the gateway so far
PayIdle == [pc |-> "idle"]

\* what the ledger holds for a booking id: an observation taken at the call
RowState(bk, bookingId) ==
    IF FindBooking(bk, bookingId) = {} THEN "absent"
    ELSE IF \E b \in FindBooking(bk, bookingId) : b.isPaid THEN "paid"
    ELSE "unpaid"

\* the request arrives; processPayment starts the gateway's timer
PayCall(p) ==
    /\ server.up
    /\ pay[p].pc # "gateway"
    /\ \E r \in PayRequests :
         pay' = [pay EXCEPT ![p] =
                    [pc |-> "gateway", req |-> r, calls |-> <<GatewayCall>>,
                     seen |-> RowState(bookings, r.bookingId),
                     overlap |-> \E q \in Procs \ {p} :
                                    /\ pay[q].pc = "gateway"
                                    /\ pay[q].req.bookingId = r.bookingId]]
    /\ last' = NoResponse
    /\ UNCHANGED <<bookings, now, held, reviews, server, chatVars>>

\* the gateway's promise resolves; processPayment goes on and the handler answers
PayReturn(p) ==
    /\ server.up
    /\ pay[p].pc = "gateway"
    /\ \E gw \in GatewayResponses :
         \E dbOk \in IF gw.success THEN BOOLEAN ELSE {TRUE} :
           LET r == pay[p].req
               out == processPayment(bookings, r.bookingId, r.amount, r.method, gw, dbOk)
           IN  /\ bookings' = out.bookings
               /\ pay' = [pay EXCEPT ![p] =
                            [pc |-> "done", req |-> r, calls |-> pay[p].calls,
                             seen |-> pay[p].seen,
                             overlap |-> pay[p].overlap, result |-> out.result]]
               /\ last' = [op |-> "pay", code |-> 200, req |-> r,
                           env |-> [gw |-> gw, dbOk |-> dbOk], calls |-> out.calls,
                           body |-> out.result,
                           call |-> [seen |-> pay[p].seen, overlap |-> pay[p].overlap]]
    /\ UNCHANGED <<now, held, reviews, server, chatVars>>

----------------------------------------------------------------------------
(* /book with its wait for the inventory service made visible: the request  *)
(* arrives and the handler sends the booking request to the service         *)
(* (BookSend); the service answers or the call fails (BookReply); on an     *)
(* answer Booking.create settles (BookCreate).  The slot holds calls, the   *)
(* requests the handler has sent to the service so far (an observation).    *)

\* a slip: the inventory service asked once more when the call has failed
afterInventory_Retry(h, inv, t) ==
    IF inv.ok
    THEN [pc |-> "create", op |-> "book", req |-> h.req, inv |-> inv,
          checkInDate |-> t, calls |-> h.calls]
    ELSE IF Len(h.calls) < 2
    THEN [h EXCEPT !.calls = Append(@, BookCall)]
    ELSE HeldIdle

\* where the handler of /book is when axios.post has settled, h being its
\* slot while it waited: with a reply it has read the clock (t) and is
\* suspended at Booking.create; with a rejection it is in the catch, which
\* answers, and the slot is free
afterInventory(h, inv, t) ==
    IF inv.ok
    THEN [pc |-> "create", op |-> "book", req |-> h.req, inv |-> inv,
          checkInDate |-> t, calls |-> h.calls]
    ELSE HeldIdle

\* one of the request bodies in R arrives at POST /book: the handler sends
\* the booking request to the inventory service and waits
BookSendOf(p, R) ==
    /\ server.up
    /\ held[p] = HeldIdle
    /\ \E r \in R :
         held' = [held EXCEPT ![p] =
                     [pc |-> "inventory", op |-> "book", req |-> r,
                      calls |-> <<BookCall>>]]
    /\ last' = NoResponse
    /\ UNCHANGED <<bookings, now, pay, reviews, server, chatVars>>

\* axios.post settles with one of I: a rejection is answered 500 by the
\* catch; with a reply the handler reads the clock and starts Booking.create
BookReplyOf(p, I) ==
    /\ server.up
    /\ held[p].pc = "inventory"
    /\ \E inv \in I :
         LET h == afterInventory(held[p], inv, now)
             r == held[p].req
             out == book(bookings, now, r, inv, TRUE)
         IN  /\ held' = [held EXCEPT ![p] = h]
             /\ IF h = HeldIdle
                THEN /\ bookings' = out.bookings
                     /\ last' = [op |-> "book", code |-> out.code, req |-> r,
                                 env |-> [inv |-> inv, dbOk |-> TRUE],
                                 calls |-> held[p].calls, body |-> out.body]
                ELSE /\ last' = NoResponse
                     /\ UNCHANGED bookings
    /\ UNCHANGED <<now, pay, reviews, server, chatVars>>

----------------------------------------------------------------------------
(* The routes that write the User and the Review table from the request     *)
(* alone: app.put('/update-user/:userId') and app.post('/add-review').      *)
(* Each handler has one await, of the write, and reads nothing before it:   *)
(* its step is the write settling and the response.                         *)

\* the request tried: the user u1 renamed, both properties given in the body
UpdateUserRequests ==
    {[userId |-> "u1", fullName |-> "C D", email |-> "c@d.com"]}

\* User.update({ fullName, email }, { where: { userId } })
SetNameAndEmail(us, r) ==
    {IF u.userId = r.userId
     THEN [u EXCEPT !.fullName = r.fullName, !.email = r.email]
     ELSE u : u \in us}

\* app.put('/update-user/:userId'): dbOk is whether User.update resolves; it
\* does so too when no row has the userId, and the answer is the same
updateUser(us, r, dbOk) ==
    IF dbOk
    THEN [users |-> SetNameAndEmail(us, r), code |-> 200,
          body |-> [message |-> <<"User updated successfully">>]]
    ELSE [users |-> us, code |-> 500, body |-> [error |-> "Error updating user"]]

\* PUT /update-user/:userId is served
PutUpdateUser ==
    /\ server.up
    /\ \E r \in UpdateUserRequests, dbOk \in BOOLEAN :
         LET out == updateUser(users, r, dbOk)
         IN  /\ users' = out.users
             /\ last' = [op |-> "update-user", code |-> out.code, req |-> r,
                         env |-> [dbOk |-> dbOk], body |-> out.body]
    /\ UNCHANGED <<bookings, now, pay, reviews, held, server, conversations,
                   pc, req, served>>

\* outcomes of the random reviewId
ReviewIds == {"R1", "R2"}

\* the request bodies tried: a review of the booking X1 by u1, and the same
\* with no userId
ReviewRequests ==
    {[bookingId |-> "X1", userId |-> u, rating |-> 5, comment |-> "fine"] :
        u \in {"u1", ""}}

\* app.post('/add-review', authenticateUser, ...): reviewId is what
\* Math.random() gave, dbOk whether the table can be written; Review.create
\* rejects a reviewId that has a row.  The table has no reference to Booking
\* or User, so no such row need exist.
addReview(rv, r, reviewId, dbOk) ==
    IF ~authenticateUser(r.userId)
    THEN [reviews |-> rv, code |-> 401, body |-> [error |-> "Unauthorized"]]
    ELSE IF dbOk /\ reviewId \notin {x.reviewId : x \in rv}
    THEN LET review == [reviewId |-> reviewId, bookingId |-> r.bookingId,
                        userId |-> r.userId, rating |-> r.rating,
                        comment |-> r.comment]
         IN  [reviews |-> rv \cup {review}, code |-> 200,
              body |-> [review |-> review]]
    ELSE [reviews |-> rv, code |-> 500, body |-> [error |-> "Error adding review"]]

\* POST /add-review is served
PostAddReview ==
    /\ server.up
    /\ \E r \in ReviewRequests, reviewId \in ReviewIds, dbOk \in BOOLEAN :
         LET out == addReview(reviews, r, reviewId, dbOk)
         IN  /\ reviews' = out.reviews
             /\ last' = [op |-> "add-review", code |-> out.code, req |-> r,
                         env |-> [reviewId |-> reviewId, dbOk |-> dbOk],
                         body |-> out.body]
    /\ UNCHANGED <<bookings, now, pay, held, server, chatVars>>

----------------------------------------------------------------------------
(* The specifications *)

\* The state when the loading of the file ends: the tables of a fresh
\* database, nothing in flight, and the process up only when pp names the app
Init ==
    /\ bookings = {}
    /\ now = StartDay
    /\ last = NoResponse
    /\ users = {}
    /\ conversations = <<>>
    /\ pc = [p \in Procs |-> "idle"]
    /\ req = [p \in Procs |-> IdleReq]
    /\ served = [u \in {r.userId : r \in ChatRequests} |-> 0]
    /\ pay = [p \in Procs |-> PayIdle]
    /\ held = [p \in Procs |-> HeldIdle]
    /\ reviews = {}
    /\ server \in {[file |-> f, ppBound |-> b, up |-> b] :
                      f \in Files, b \in BOOLEAN}

\* the process started from server.js
InitServerJs == Init /\ server.file = "server.js"

\* the process started from the first copy of the program in part_000
InitPart000 == Init /\ server.file = "part_000"

\* no call of a ledger route or of /register is suspended at its write
NoneHeld == \A p \in Procs : held[p] = HeldIdle

Next ==
    \/ \E p \in Procs : NoneHeld /\ PostBook(p)
    \/ \E p \in Procs : BookCreate(p)
    \/ NoneHeld /\ PostProcessPayment
    \/ \E p \in Procs : NoneHeld /\ PutUpdateBooking(p)
    \/ \E p \in Procs : UpdateWrite(p)
    \/ \E p \in Procs : NoneHeld /\ DeleteDeleteBooking(p)
    \/ \E p \in Procs : DeleteDestroy(p)
    \/ \E p \in Procs : NoneHeld /\ PostCancelBooking(p)
    \/ NoneHeld /\ GetBookingsInRange
    \/ NoneHeld /\ CallGetRooms
    \/ Tick

\* the Booking ledger of server.js, its requests served one at a time while
\* days pass
Spec == InitServerJs /\ [][Next]_vars

\* the one-night booking X1 of the guest of room 5
BookX1(p) ==
    PostBookOf(p, {r \in BookRequests : r.roomId = 5 /\ r.nights = 1},
               {i \in InventoryReplies : i.ok => i.data.bookingId = "X1"})

LedgerRaceNext ==
    \/ \E p \in Procs : BookX1(p)
    \/ \E p \in Procs : BookCreate(p)
    \/ PostProcessPaymentOf({r \in PayRequests : r.bookingId = "X1"
                                /\ r.amount = 300 /\ r.method = "credit_card"})
    \/ \E p \in Procs :
          PutUpdateBookingOf(p, {r \in UpdateRequests : r.bookingId = "X1"})
    \/ \E p \in Procs : UpdateWrite(p)
    \/ \E p \in Procs : DeleteDeleteBookingOf(p, {"X1"})
    \/ \E p \in Procs : DeleteDestroy(p)

\* the ledger of server.js for the booking X1, with bookings, updates and
\* deletes interleaved at their awaits with each other and with
\* /process-payment
LedgerRaceSpec == InitServerJs /\ [][LedgerRaceNext]_vars

CancelNext ==
    \/ \E p \in Procs : BookX1(p)
    \/ \E p \in Procs : BookCreate(p)
    \/ \E p \in Procs :
          PostCancelBookingOf(p, {r \in CancelRequests : r.bookingId = "X1"})
    \/ \E p \in Procs : CancelDestroy(p)
    \/ \E p \in Procs : DeleteDeleteBookingOf(p, {"X1"})
    \/ \E p \in Procs : DeleteDestroy(p)
    \/ GetBookingsInRange

\* the ledger of the first copy of the program in src/unnamed/part_000, which
\* has /cancel-booking, for the booking X1: bookings, cancels and deletes
\* interleaved at their awaits
CancelSpec == InitPart000 /\ [][CancelNext]_vars

ChatNext ==
    \/ \E p \in Procs : ChatCall(p)
    \/ \E p \in Procs : ChatUser(p)
    \/ \E p \in Procs : ChatFind(p)
    \/ \E p \in Procs : ChatCreate(p)
    \/ \E p \in Procs : ChatModel(p)

\* chat requests, interleaved with each other at the handler's awaits
ChatSpec == InitServerJs /\ [][ChatNext]_vars

\* the same, with every pending continuation run in the end: while the
\* process runs, the event loop resumes a handler whose awaited promise has
\* settled, and the model call resolves or rejects
FairChatSpec ==
    /\ ChatSpec
    /\ \A p \in Procs :
          /\ WF_vars(ChatUser(p)) /\ WF_vars(ChatFind(p))
          /\ WF_vars(ChatCreate(p)) /\ WF_vars(ChatModel(p))

RaceNext ==
    \/ \E p \in Procs : ChatCallOf(p, {r \in ChatRequests : r.userId = "u1"})
    \/ \E p \in Procs : ChatUser(p)
    \/ \E p \in Procs : ChatFind(p)
    \/ \E p \in Procs : ChatCreate(p)
    \/ \E p \in Procs : ChatModel(p)
    \/ \E p \in Procs : NoneHeld /\ PostRegister(p)
    \/ \E p \in Procs : RegisterCreate(p)
    \/ ChatTick

\* the chat requests of one user, interleaved at the handler's awaits with
\* each other and with /register, while days pass
RaceSpec == InitServerJs /\ [][RaceNext]_vars

NoneInFlight == \A p \in Procs : pc[p] = "idle"

SeqChatNext ==
    \/ NoneInFlight /\ ChatCall("p1")
    \/ ChatUser("p1")
    \/ ChatFind("p1")
    \/ ChatCreate("p1")
    \/ ChatModel("p1")
    \/ NoneHeld /\ PostRegister("p1")
    \/ RegisterCreate("p1")

\* chat requests under sequential access: one chat call at a time, with
\* /register served between its steps, all on one day
SeqChatSpec == InitServerJs /\ [][SeqChatNext]_vars

PayNext ==
    \/ \E p \in Procs : NoneHeld /\ BookX1(p)
    \/ \E p \in Procs : BookCreate(p)
    \/ \E p \in Procs : DeleteDeleteBookingOf(p, {"X1"})
    \/ \E p \in Procs : DeleteDestroy(p)
    \/ \E p \in Procs :
          PayCall(p) /\ pay'[p].req =
                          [bookingId |-> "X1", amount |-> 300, method |-> "credit_card"]
    \/ \E p \in Procs : PayReturn(p)

\* payments of the one-night booking X1 at its price, overlapping each other
\* and the removal of the booking
PaySpec == InitServerJs /\ [][PayNext]_vars

BookNext ==
    \/ \E p \in Procs :
          NoneHeld /\ PostBookOf(p, UncheckedBookRequests, InventoryReplies)
    \/ \E p \in Procs : BookCreate(p)
    \/ \E p \in Procs : NoneHeld /\ DeleteDeleteBooking(p)
    \/ \E p \in Procs : DeleteDestroy(p)

\* /book called with request bodies of every kind
BookSpec == InitServerJs /\ [][BookNext]_vars

WholeNext ==
    \/ NoneHeld /\ BookX1("p1")
    \/ BookCreate("p1")
    \/ NoneHeld /\ PostProcessPayment
    \/ NoneHeld /\ PutUpdateBooking("p1")
    \/ UpdateWrite("p1")
    \/ NoneHeld /\ DeleteDeleteBooking("p1")
    \/ DeleteDestroy("p1")
    \/ NoneInFlight /\ ChatCallOf("p1", {r \in ChatRequests : r.userId # "u2"})
    \/ ChatUser("p1")
    \/ ChatFind("p1")
    \/ ChatCreate("p1")
    \/ ChatModel("p1")
    \/ NoneHeld /\ PostRegister("p1")
    \/ RegisterCreate("p1")
    \/ NoneHeld /\ PutUpdateUser
    \/ NoneHeld /\ PostAddReview

\* every route of server.js that writes a table, together (the others are
\* GET routes that read one table): /register, /book, /process-payment,
\* /chat, /update-user, /add-review, /update-booking and /delete-booking,
\* for the one-night booking X1 and one booking, update, delete, registration,
\* user update or review at a time, served between the steps of one chat call
\* at a time
WholeSpec == InitServerJs /\ [][WholeNext]_vars

\* the request bodies and replies of the one-night booking X1
X1Requests == {r \in BookRequests : r.roomId = 5 /\ r.nights = 1}
X1Replies == {i \in InventoryReplies : i.ok => i.data.bookingId = "X1"}

UpstreamNext ==
    \/ BookSendOf("p1", X1Requests)
    \/ BookReplyOf("p1", X1Replies)
    \/ BookCreate("p1")
    \/ PayCall("p1") /\ pay'["p1"].req =
                          [bookingId |-> "X1", amount |-> 300, method |-> "credit_card"]
    \/ PayReturn("p1")
    \/ ChatCallOf("p1", {r \in ChatRequests : r.userId # "u2"})
    \/ ChatUser("p1")
    \/ ChatFind("p1")
    \/ ChatCreate("p1")
    \/ ChatModel("p1")

\* the three routes that call another service, each with its wait for the
\* service made visible: one /book, one /process-payment and one /chat
\* request at a time, the three interleaved at their awaits
UpstreamSpec == InitServerJs /\ [][UpstreamNext]_vars

----------------------------------------------------------------------------
(* Observations on the latest response *)

Booked == last.op = "book" /\ last.code = 200
RemoteBooked == last.op = "book" /\ last.env.inv.ok
Paying == last.op = "pay"
GatewaySucceeded == last.op = "pay" /\ last.env.gw.success

\* the rows with the booking id of the latest request or inventory reply
BookedRows == FindBooking(bookings, last.env.inv.data.bookingId)
PaidRows == FindBooking(bookings, last.req.bookingId)

StayIsNights(b, nights) ==
    /\ ~b.isPaid
    /\ b.checkOutDate - b.checkInDate = nights

----------------------------------------------------------------------------
(* Claims about the ledger, checked under Spec *)

\* C1 as stated: after a book call with valid inputs whose inventory call
\* succeeded, a Booking row with the returned bookingId exists, unpaid, with
\* checkOutDate - checkInDate equal to exactly `nights` days.
C1_AsStated ==
    (RemoteBooked /\ ValidBookInput(last.req)) =>
        /\ BookedRows # {}
        /\ \A b \in BookedRows : StayIsNights(b, last.req.nights)

\* C1 amended: after a book call with valid inputs whose inventory call
\* succeeded and whose Booking.create succeeded (the call answered 200), a
\* Booking row with the returned bookingId exists, unpaid, with
\* checkOutDate - checkInDate equal to exactly `nights` days.
C1_BookedRowExists ==
    (Booked /\ ValidBookInput(last.req)) =>
        /\ BookedRows # {}
        /\ \A b \in BookedRows : StayIsNights(b, last.req.nights)

\* a stay booked on the last day of February that ends in March
C1_Witness ==
    /\ Booked
    /\ ValidBookInput(last.req)
    /\ \E b \in BookedRows :
        /\ MonthFromTime(b.checkInDate) = 1
        /\ MonthFromTime(b.checkOutDate) = 2
        /\ last.req.nights = MaxNights

\* C2: a book call whose inventory call fails creates no Booking row, leaves
\* the set of Booking rows unchanged and answers 500 with the booking error.
C2_UpstreamFailureWritesNothing ==
    [][(last'.op = "book" /\ ~last'.env.inv.ok) =>
          /\ bookings' = bookings
          /\ last'.code = 500
          /\ last'.body = [error |-> "Error booking room"]]_vars

\* an inventory failure answered while a Booking row is on the ledger
C2_Witness ==
    /\ last.op = "book"
    /\ ~last.env.inv.ok
    /\ last.code = 500
    /\ bookings # {}

\* C3 as stated: processPayment sets the Booking's isPaid to true exactly when
\* the gateway reports success; on a gateway failure the rows are unmodified
\* and the result is {status: failed, message}.
C3_AsStated ==
    [][(last'.op = "pay" /\ FindBooking(bookings, last'.req.bookingId) # {}) =>
          IF last'.env.gw.success
          THEN \A b \in FindBooking(bookings', last'.req.bookingId) : b.isPaid
          ELSE /\ bookings' = bookings
               /\ last'.body.status = "failed"
               /\ DOMAIN last'.body = {"status", "message"}]_vars

\* C3 amended: processPayment sets the Booking's isPaid to true when the
\* gateway reports success and the ledger update does not throw, and only
\* then; in every other case (gateway failure, or a throwing update) the rows
\* are unmodified and the result is {status: failed, message}.
C3_PaidOnlyOnSuccess ==
    [][(last'.op = "pay" /\ FindBooking(bookings, last'.req.bookingId) # {}) =>
          IF last'.env.gw.success /\ last'.env.dbOk
          THEN /\ \A b \in FindBooking(bookings', last'.req.bookingId) : b.isPaid
               /\ FindBooking(bookings', last'.req.bookingId) # {}
          ELSE /\ bookings' = bookings
               /\ last'.body.status = "failed"
               /\ DOMAIN last'.body = {"status", "message"}]_vars

\* a declined payment of an unpaid booking, which stays unpaid
C3_Witness ==
    /\ Paying
    /\ ~last.env.gw.success
    /\ last.body.status = "failed"
    /\ \E b \in PaidRows : ~b.isPaid

\* C4, under LedgerRaceSpec: isPaid is monotonic: a Booking row that is paid
\* and still exists after a step (a payment attempt, successful or not, or a
\* step of an update, whatever is served between its steps) is still paid.
C4_PaidIsMonotonic ==
    [][\A b \in bookings : \A c \in bookings' :
          (b.bookingId = c.bookingId /\ b.isPaid) => c.isPaid]_vars

\* a paid booking after a later, declined, payment attempt
C4_Witness ==
    /\ Paying
    /\ ~last.env.gw.success
    /\ \E b \in PaidRows : b.isPaid

\* C8, under CancelSpec: with the table answering, a cancellation for which
\* a row has the given bookingId and the given userId (when the request is
\* answered, or when the handler looked the row up) is answered 200 and the
\* rows with that bookingId are gone, no other; every other cancellation is
\* answered 404 and the Booking rows are as they were.
C8_CancelChecksOwner ==
    [][(last'.op = "cancel" /\ last'.env.findOk /\ last'.env.writeOk) =>
          IF \/ FindOwnedBooking(bookings, last'.req.bookingId,
                                 last'.req.userId) # {}
             \/ last'.found # {}
          THEN /\ last'.code = 200
               /\ bookings' = {b \in bookings : b.bookingId # last'.req.bookingId}
          ELSE /\ last'.code = 404
               /\ bookings' = bookings]_vars

\* a cancellation by someone else than the owner: 404, and the row is there
C8_Witness ==
    /\ last.op = "cancel"
    /\ last.code = 404
    /\ \E b \in FindBooking(bookings, last.req.bookingId) :
          b.userId # last.req.userId

\* C9: the row persisted by a successful book call has the bookingId and the
\* totalPrice of the inventory reply and the requested roomId, and no step
\* puts a bookingId on the ledger that the inventory did not return to it.
C9_IdAndPriceFromInventory ==
    [][/\ (last'.op = "book" /\ last'.code = 200) =>
            \E b \in bookings' \ bookings :
                /\ b.bookingId = last'.env.inv.data.bookingId
                /\ b.totalAmount = last'.env.inv.data.totalPrice
                /\ b.roomId = last'.req.roomId
       /\ \A id \in BookingKeys(bookings') \ BookingKeys(bookings) :
            /\ last'.op = "book"
            /\ last'.env.inv.ok
            /\ last'.env.inv.data.bookingId = id]_vars

\* the scenario of the spec: room 5 booked, the reply's id and price persisted
C9_Witness ==
    /\ Booked
    /\ last.req.roomId = 5
    /\ \E b \in BookedRows :
          /\ b.bookingId = "X1"
          /\ b.roomId = 5
          /\ b.totalAmount = 300
          /\ ~b.isPaid

----------------------------------------------------------------------------
(* Claims about the chat transcript *)

Answered(code) == last.op = "chat" /\ last.code = code

\* user turn, reply, user turn, reply, ...
Alternates(t) ==
    /\ Len(t) % 2 = 0
    /\ \A k \in DOMAIN t :
          t[k].role = (IF k % 2 = 1 THEN "user" ELSE "system")

\* the two turns a served call adds: the user turn, then the reply
Exchange(message, content) ==
    <<[role |-> "user", content |-> message], [role |-> "system", content |-> content]>>

\* C5, under SeqChatSpec (one call at a time, from no conversation): after N
\* calls of a user answered 200 the stored transcript has exactly 2N turns,
\* user turn and reply alternating, and each served call stores the previous
\* transcript extended by its own user turn and its reply, in that order.
C5_TranscriptGrowsInOrder ==
    [][/\ \A u \in UserIds :
            /\ Len(TranscriptIn(conversations', u)) = 2 * served'[u]
            /\ Alternates(TranscriptIn(conversations', u))
       /\ (last'.op = "chat" /\ last'.code = 200) =>
            TranscriptIn(conversations', last'.req.userId) =
                TranscriptIn(conversations, last'.req.userId)
                    \o Exchange(last'.req.message, last'.env.out.content)]_vars

\* two calls of u1 served: four turns, the replies in call order
C5_Witness ==
    /\ Answered(200)
    /\ served["u1"] = 2
    /\ Len(Transcript("u1")) = 4
    /\ Transcript("u1")[2].content = Null
    /\ Transcript("u1")[4].content = "Hello!"

\* C6, under ChatSpec (every interleaving): no stored transcript holds a user
\* turn without its resolution: every stored user turn is immediately
\* followed by a reply turn.
C6_NoDanglingUserTurn ==
    \A i \in DOMAIN conversations :
        LET t == Parse(conversations[i].messages)
        IN  \A k \in DOMAIN t :
                t[k].role = "user" => (k < Len(t) /\ t[k + 1].role = "system")

\* a call holds its pushed user turn while the model runs, and the stored
\* transcript still ends with a reply
C6_Witness ==
    \E p \in Procs :
        /\ pc[p] = "model"
        /\ Len(req[p].messages) = 3
        /\ req[p].messages[3].role = "user"
        /\ Len(Transcript(req[p].userId)) = 2

\* C7, under SeqChatSpec: a call whose model call (or save) throws is answered
\* once, 500 with the chat error, and no stored transcript changes in any
\* step but the one that answers 200 for that user, so the transcript after
\* a failed call is the one stored before it.
C7_FailedTurnKeepsTranscript ==
    [][/\ (last'.op = "chat" /\ last'.code = 500) =>
            /\ last'.body = [error |-> "Error processing chat"]
            /\ conversations' = conversations
            /\ \E p \in Procs : pc[p] = "model" /\ pc'[p] = "idle"
       /\ (last'.op = "chat" /\ last'.code # 401 /\ ~last'.env.out.ok) =>
            last'.code = 500
       /\ \A u \in UserIds :
            TranscriptIn(conversations', u) # TranscriptIn(conversations, u) =>
                /\ last'.op = "chat"
                /\ last'.code = 200
                /\ last'.req.userId = u]_vars

\* the model unavailable on the call after a served one: 500, and the served
\* exchange is still what is stored
C7_Witness ==
    /\ Answered(500)
    /\ ~last.env.out.ok
    /\ served[last.req.userId] = 1
    /\ Len(Transcript(last.req.userId)) = 2

\* C11, under SeqChatSpec, as stated: a call whose completion is a function
\* call is answered with a transcript that ends with the user turn, then a
\* turn holding the result of the function, then the model's final reply in
\* words.
C11_AsStated ==
    (Answered(200) /\ last.env.out.function_call # Undefined) =>
        LET t == last.body.messages
            n == Len(t)
        IN  /\ n >= 3
            /\ t[n - 2] = [role |-> "user", content |-> last.req.message]
            /\ t[n - 1].role # "user"
            /\ t[n].content # Null

\* C12, under SeqChatSpec: a chat request without a userId is answered 401
\* Unauthorized and nothing else happens: no user row, no conversation row,
\* no transcript and no booking changes, and no request goes on towards the
\* model call; a request in flight always has a userId, and so has every row.
C12_NoUserIdChangesNothing ==
    [][/\ (last'.op = "chat" /\ last'.req.userId = "") =>
            /\ last'.code = 401
            /\ last'.body = [error |-> "Unauthorized"]
            /\ UNCHANGED <<bookings, users, conversations, pc, req, served>>
       /\ (last'.op = "chat" /\ last'.code = 401) => last'.req.userId = ""
       /\ \A p \in Procs : pc'[p] # "idle" => req'[p].userId # ""
       /\ \A u \in users' : u.userId # ""
       /\ \A i \in DOMAIN conversations' : conversations'[i].userId # ""]_vars

\* a request without a userId refused while users and transcripts are stored
C12_Witness ==
    /\ Answered(401)
    /\ last.req.userId = ""
    /\ users # {}
    /\ Len(Transcript("u1")) = 2

\* C13, under ChatSpec (every interleaving): the save of a served call replaces
\* the stored transcript of its conversation row by the transcript this
\* request read plus its own exchange, whatever another request has stored in
\* between: the later write wins and the earlier exchange is gone.
C13_LastWriteWins ==
    [][\A p \in Procs :
          (pc[p] = "model" /\ pc'[p] = "idle"
              /\ last'.op = "chat" /\ last'.code = 200) =>
            /\ Parse(conversations'[req[p].conv].messages) =
                  pushReply(req[p].messages, last'.env.out.content)
            /\ \A i \in DOMAIN conversations :
                  i # req[p].conv => conversations'[i] = conversations[i]]_vars

\* two calls of u1 both served, and one exchange stored
C13_Witness ==
    /\ NoneInFlight
    /\ Answered(200)
    /\ served["u1"] = 2
    /\ Len(conversations) = 1
    /\ Len(Transcript("u1")) = 2

\* C14, under PaySpec: processPayment does not deduplicate.  Whenever the
\* gateway approves and the update goes through, the call returns success and
\* leaves the row of the booking paid, whatever the row held before and
\* whichever other call for the booking is in flight or has returned.
C14_NoDeduplication ==
    [][(last'.op = "pay" /\ last'.env.gw.success /\ last'.env.dbOk) =>
          /\ last'.body.status = "success"
          /\ \A b \in FindBooking(bookings, last'.req.bookingId) :
                [b EXCEPT !.isPaid = TRUE] \in bookings']_vars

\* two calls for one booking both returned success; one of them arrived while
\* the other was at the gateway and the row was already paid
C14_Witness ==
    \E p, q \in Procs :
        /\ p # q
        /\ pay[p].pc = "done" /\ pay[q].pc = "done"
        /\ pay[p].req.bookingId = pay[q].req.bookingId
        /\ pay[p].result.status = "success" /\ pay[q].result.status = "success"
        /\ pay[q].overlap
        /\ pay[q].seen = "paid"
        /\ RowState(bookings, pay[q].req.bookingId) = "paid"

\* C15, under PaySpec: processPayment does not check that the booking exists.
\* When the gateway approves a payment for a booking id that has no row when
\* the update runs, no row is changed, no row is created and the call still
\* returns success.
C15_NoExistenceCheck ==
    [][(last'.op = "pay" /\ last'.env.gw.success /\ last'.env.dbOk
            /\ RowState(bookings, last'.req.bookingId) = "absent") =>
          /\ last'.body.status = "success"
          /\ bookings' = bookings]_vars

\* success returned for a booking deleted while its payment was at the gateway
C15_Witness ==
    /\ last.op = "pay"
    /\ last.body.status = "success"
    /\ last.call.seen = "unpaid"
    /\ RowState(bookings, last.req.bookingId) = "absent"

\* C16, under Spec: when the inventory call succeeded and the local row
\* cannot be written, the request is answered 500 with the booking error, no
\* Booking row is written, and the handler has sent the inventory service the
\* booking request and nothing else: no cancellation and no second attempt.
\* The inventory's booking is left without a row of its own.
C16_RemoteBookingLeftBehind ==
    [][(last'.op = "book" /\ last'.env.inv.ok) =>
          /\ ~last'.env.dbOk => last'.code = 500
          /\ last'.code # 200 =>
                /\ last'.code = 500
                /\ last'.body = [error |-> "Error booking room"]
                /\ bookings' = bookings
                /\ last'.calls = <<BookCall>>]_vars

\* the inventory booked X1, the write failed, and the ledger has no row for X1
C16_Witness ==
    /\ RemoteBooked
    /\ ~last.env.dbOk
    /\ last.code = 500
    /\ last.calls = <<BookCall>>
    /\ FindBooking(bookings, last.env.inv.data.bookingId) = {}
    /\ bookings # {}

\* C17, under BookSpec, as stated: a /book request whose nights is not a
\* positive integer, or whose fullName or email is empty, is rejected before
\* the inventory service is called: no request is sent to it, the call is not
\* answered 200 and no Booking row is written.
C17_AsStated ==
    [][(last'.op = "book" /\ ~ValidBookInput(last'.req)) =>
          /\ last'.calls = <<>>
          /\ last'.code # 200
          /\ bookings' = bookings]_vars

\* C18, under Spec, as stated: a payment by a method outside credit_card,
\* debit_card and paypal never returns success and never changes a row.
C18_AsStated ==
    [][(last'.op = "pay" /\ last'.req.method \notin PaymentMethods) =>
          /\ last'.body.status # "success"
          /\ bookings' = bookings]_vars

\* C19, under Spec, as stated: a range query is answered with exactly the
\* rows whose checkInDate lies between the start and the end date, both
\* included.
C19_AsStated ==
    (last.op = "range") =>
        /\ last.code = 200
        /\ last.body.bookings =
              {b \in bookings : last.req.startDate <= b.checkInDate
                                  /\ b.checkInDate <= last.req.endDate}

\* C20, under Spec: getRooms never throws; it returns the inventory's payload
\* as it came when the request succeeded and the empty list when it failed,
\* and the call changes no booking, user or conversation.
C20_GetRoomsDegrades ==
    [][(last'.op = "rooms") =>
          /\ ~last'.body.threw
          /\ last'.body.value =
                IF last'.env.rooms.ok THEN last'.env.rooms.data ELSE <<>>
          /\ UNCHANGED <<bookings, users, conversations>>]_vars

\* the inventory service failed while a booking is on the ledger: the empty list
C20_Witness ==
    /\ last.op = "rooms"
    /\ ~last.env.rooms.ok
    /\ last.body = [threw |-> FALSE, value |-> <<>>]
    /\ bookings # {}

\* C21, under FairChatSpec, as stated: every chat request that passed
\* authenticateUser is answered in the end, whatever the interleaving: its
\* slot, once taken, becomes free again by the step that sends the response.
C21_AsStated ==
    \A p \in Procs : (pc[p] # "idle") ~> (pc[p] = "idle")

\* C22, under ChatSpec, as stated: no user has more than one Conversation row.
C22_AsStated ==
    \A i, j \in DOMAIN conversations :
        conversations[i].userId = conversations[j].userId => i = j

\* C23, under RaceSpec, as stated: the step of a chat request in which its
\* User.create or user.update settles leaves exactly one User row for its
\* userId, and the lastInteraction of that row is the time the call read for
\* it.
C23_AsStated ==
    [][\A p \in Procs :
          (pc[p] = "user" /\ pc'[p] # "user") =>
              /\ Cardinality(FindUser(users', req[p].userId)) = 1
              /\ \A u \in FindUser(users', req[p].userId) :
                    u.lastInteraction = req[p].stamp]_vars

\* C24, under SeqChatSpec, as stated: every stored turn has one of the roles
\* user, assistant and system-function-result, and the turn that a served
\* call stores for the model's reply has the role assistant.
C24_AsStated ==
    /\ \A i \in DOMAIN conversations :
          \A k \in DOMAIN conversations[i].messages :
              conversations[i].messages[k].role \in
                  {"user", "assistant", "system-function-result"}
    /\ Answered(200) =>
          LET t == Transcript(last.req.userId)
          IN  t # <<>> /\ t[Len(t)].role = "assistant"

\* C25, under WholeSpec: a booking id comes onto the ledger only in a step of
\* /book; the isPaid flag of a row changes only in a step of processPayment
\* whose gateway approved, and only from false to true; the stored
\* conversations change only in a step of the chat handler.  A step of
\* /update-booking, /delete-booking, /register, /update-user or /add-review
\* adds no booking id, changes no isPaid flag and leaves the conversations
\* as they were, and a step of the chat handler leaves the Booking rows as
\* they were.
C25_WriteOwnership ==
    [][/\ BookingKeys(bookings') \ BookingKeys(bookings) # {} => last'.op = "book"
       /\ \A b \in bookings, c \in bookings' :
            (b.bookingId = c.bookingId /\ b.isPaid # c.isPaid) =>
                /\ last'.op = "pay"
                /\ last'.env.gw.success
                /\ ~b.isPaid /\ c.isPaid
       /\ conversations' # conversations =>
            \E p \in Procs : pc[p] \in {"create", "model"} /\ pc'[p] # pc[p]
       /\ last'.op \in {"update", "delete", "register", "update-user",
                        "add-review"} =>
            /\ BookingKeys(bookings') \subseteq BookingKeys(bookings)
            /\ \A b \in bookings, c \in bookings' :
                  b.bookingId = c.bookingId => c.isPaid = b.isPaid
            /\ conversations' = conversations
       /\ (\E p \in Procs : pc'[p] # pc[p]) => bookings' = bookings]_vars

\* a review is stored while the booking, paid and then moved to another
\* room, is still paid, the user has been renamed and the transcript of the
\* user's chat call is stored
C25_Witness ==
    /\ last.op = "add-review"
    /\ last.code = 200
    /\ reviews # {}
    /\ \E u \in users : u.fullName = "C D"
    /\ \E b \in bookings : b.isPaid /\ b.roomId \in NewRoomIds
    /\ Len(Transcript("u1")) = 2

\* C26, under UpstreamSpec: nothing is retried.  While a /book request is
\* served it has sent the inventory service one booking request, a payment
\* has made one attempt at the gateway from its arrival on, and a chat call
\* has called the model not at all before its conversation is loaded and
\* once from then on; the step that answers a request, with a success or
\* with a failure, ends a request that has made exactly one call.
C26_NoRetry ==
    [][\A p \in Procs :
          /\ held'[p] # HeldIdle => held'[p].calls = <<BookCall>>
          /\ pay'[p] # PayIdle => pay'[p].calls = <<GatewayCall>>
          /\ pc'[p] # "idle" =>
                req'[p].calls = IF pc'[p] = "model" THEN <<ModelCall>> ELSE <<>>
          /\ (held[p] # HeldIdle /\ held'[p] = HeldIdle) =>
                /\ held[p].calls = <<BookCall>>
                /\ last'.op = "book"
          /\ (pay[p] # PayIdle /\ pay[p].pc = "gateway" /\ pay'[p] # pay[p]) =>
                /\ pay'[p].pc = "done"
                /\ last'.op = "pay"
          /\ (pc[p] = "model" /\ pc'[p] # "model") =>
                /\ req[p].calls = <<ModelCall>>
                /\ pc'[p] = "idle"
                /\ last'.op = "chat"]_vars

\* the inventory call failed and was answered 500 after one request; the
\* payment before it failed at the gateway after one attempt; and a chat call
\* was answered 500 after its conversation was created
C26_Witness ==
    /\ last.op = "book"
    /\ ~last.env.inv.ok
    /\ last.code = 500
    /\ last.calls = <<BookCall>>
    /\ pay["p1"].pc = "done"
    /\ pay["p1"].result.status = "failed"
    /\ pay["p1"].calls = <<GatewayCall>>
    /\ pc["p1"] = "idle"
    /\ conversations # <<>>
    /\ served["u1"] = 0

\* C27, under Spec: an update of a booking id that has no row, the lookup
\* answering, is answered 404 with the not-found error, and the Booking rows
\* are as they were: none is created and none is modified.
C27_UpdateOfMissingBooking ==
    [][(/\ last'.op = "update"
        /\ last'.env.findOk
        /\ FindBooking(bookings, last'.req.bookingId) = {}
        /\ last'.found = {}) =>
          /\ last'.code = 404
          /\ last'.body = [error |-> "Booking not found"]
          /\ bookings' = bookings]_vars

\* an update of a booking that is not there, while another one is
C27_Witness ==
    /\ last.op = "update"
    /\ last.code = 404
    /\ FindBooking(bookings, last.req.bookingId) = {}
    /\ bookings # {}

\* C28, under CancelSpec: the row written by a successful /book
\* has the email of the request as its userId, no later step rewrites the
\* userId of a row, and, with the table answering, a cancellation succeeds
\* exactly when the userId it gives is the one stored for the booking, that
\* is the email given at booking time.
C28_OwnerIsBookingEmail ==
    [][/\ (last'.op = "book" /\ last'.code = 200) =>
            \A b \in bookings' \ bookings : b.userId = last'.req.email
       /\ \A b \in bookings, c \in bookings' :
            b.bookingId = c.bookingId => c.userId = b.userId
       /\ (last'.op = "cancel" /\ last'.env.findOk /\ last'.env.writeOk) =>
            (last'.code = 200 <=>
                \/ \E b \in FindBooking(bookings, last'.req.bookingId) :
                       b.userId = last'.req.userId
                \/ \E b \in last'.found : b.userId = last'.req.userId)]_vars

\* the guest who booked cancels with the booking email, after a cancellation
\* with another email was refused
C28_Witness ==
    /\ last.op = "cancel"
    /\ last.code = 200
    /\ \E b \in last.found : b.userId = last.req.userId /\ b.userId = "a@b.com"
    /\ FindBooking(bookings, last.req.bookingId) = {}

\* C29, under WholeSpec, as stated: a /book request or a chat call that got
\* past authenticateUser in which a call of the inventory service, of the
\* model or of the database fails is answered 500 with the one fixed body of
\* its route, whichever call it was that failed.
C29_AsStated ==
    [][/\ (last'.op = "book" /\ last'.code # 200) =>
            /\ last'.code = 500
            /\ last'.body = [error |-> "Error booking room"]
       /\ (last'.op = "chat" /\ last'.code \notin {200, 401}) =>
            /\ last'.code = 500
            /\ last'.body = [error |-> "Error processing chat"]
       /\ \A p \in Procs :
            (pc[p] # "hung" /\ pc'[p] = "hung") =>
                /\ last'.op = "chat"
                /\ last'.code = 500
                /\ last'.body = [error |-> "Error processing chat"]]_vars

\* C30, under Spec, as stated: every Booking row has its checkOutDate on
\* or after its checkInDate.
C30_AsStated ==
    \A b \in bookings : b.checkOutDate >= b.checkInDate

\* C31, under Spec: when the gateway approves and the update of isPaid
\* throws, processPayment raises nothing: the endpoint answers 200 with the
\* result {status: failed, message}, and no Booking row has changed.
C31_ThrowingUpdateReportedFailed ==
    [][(last'.op = "pay" /\ last'.env.gw.success /\ ~last'.env.dbOk) =>
          /\ last'.code = 200
          /\ last'.body =
                [status |-> "failed",
                 message |-> <<"An error occurred while processing the payment.">>]
          /\ bookings' = bookings]_vars

\* the gateway approved, the update threw, and the booking is still unpaid
C31_Witness ==
    /\ GatewaySucceeded
    /\ ~last.env.dbOk
    /\ last.body.status = "failed"
    /\ \E b \in PaidRows : ~b.isPaid

\* C32, under Spec: no two Booking rows have the same bookingId, and when the
\* inventory returns a bookingId that has a row already, /book answers 500
\* and the rows, the one with that id included, are as they were.
C32_BookingIdIsUnique ==
    [][/\ \A b, c \in bookings' : b.bookingId = c.bookingId => b = c
       /\ (last'.op = "book" /\ last'.env.inv.ok
              /\ last'.env.inv.data.bookingId \in BookingKeys(bookings)) =>
            /\ last'.code = 500
            /\ bookings' = bookings]_vars

\* the inventory returned the id of a paid booking, the write could go
\* through, and the paid row is what the ledger holds for the id
C32_Witness ==
    /\ RemoteBooked
    /\ last.env.dbOk
    /\ last.code = 500
    /\ \E b \in FindBooking(bookings, last.env.inv.data.bookingId) : b.isPaid

\* C33, under Spec: with the table answering, an update of a
\* booking that is there succeeds, and it changes the roomId, checkInDate and
\* checkOutDate of the row with the given bookingId to the ones of the
\* request and nothing else: the row keeps its bookingId, userId, totalAmount
\* and isPaid, and every other row is as it was.
C33_UpdateWritesThreeFields ==
    [][(/\ last'.op = "update"
        /\ last'.env.findOk /\ last'.env.writeOk
        /\ FindBooking(bookings, last'.req.bookingId) # {}) =>
          /\ last'.code = 200
          /\ \E b \in bookings :
                /\ b.bookingId = last'.req.bookingId
                /\ bookings' =
                      (bookings \ {b}) \cup
                      {[b EXCEPT !.roomId = last'.req.roomId,
                                 !.checkInDate = last'.req.checkInDate,
                                 !.checkOutDate = last'.req.checkOutDate]}]_vars

\* a paid booking moved to the new room, the other booking where it was
C33_Witness ==
    /\ last.op = "update"
    /\ last.code = 200
    /\ \E b \in FindBooking(bookings, last.req.bookingId) :
          b.isPaid /\ b.roomId = last.req.roomId /\ b.totalAmount = 300
    /\ \E c \in bookings :
          c.bookingId # last.req.bookingId /\ c.roomId # last.req.roomId

\* C34, under Spec: with the table answering, a delete of a
\* booking that is there (when the request is answered, or when the handler
\* looked it up) is answered 200 and removes the row with the given
\* bookingId, paid or not and whoever asks, and no other row; when there is
\* no such row it answers 404 and the rows are as they were.
C34_DeleteRemovesTheRow ==
    [][(last'.op = "delete" /\ last'.env.findOk /\ last'.env.writeOk) =>
          IF FindBooking(bookings, last'.req.bookingId) # {} \/ last'.found # {}
          THEN /\ last'.code = 200
               /\ bookings' = bookings \ FindBooking(bookings, last'.req.bookingId)
          ELSE /\ last'.code = 404
               /\ bookings' = bookings]_vars

\* the paid booking deleted, the booking of the other guest still there
C34_Witness ==
    /\ last.op = "delete"
    /\ last.code = 200
    /\ \E b \in last.found : b.isPaid
    /\ FindBooking(bookings, last.req.bookingId) = {}
    /\ bookings # {}

\* C35, under Spec: what a payment does to the ledger, and its status, do not
\* depend on the amount or the method: with the same rows, bookingId, gateway
\* response and database, every other amount and method would have left the
\* same rows and returned the same status.
C35_AmountAndMethodIgnored ==
    [][last'.op = "pay" =>
          \A amount \in Amounts, method \in Methods :
              LET other == processPayment(bookings, last'.req.bookingId, amount,
                                          method, last'.env.gw, last'.env.dbOk)
              IN  /\ other.bookings = bookings'
                  /\ other.result.status = last'.body.status]_vars

\* a booking of 300 paid with a payment of another amount
C35_Witness ==
    /\ GatewaySucceeded
    /\ last.body.status = "success"
    /\ \E b \in PaidRows : b.isPaid /\ b.totalAmount # last.req.amount

====
